---- MODULE Spec2Model ----
(***************************************************************************)
(* Verification model of the CROVIA core engine:                           *)
(*   - the hash-chain writer   (hashchain_writer.py)                       *)
(*   - the hash-chain verifier (verify_hashchain.py)                       *)
(*   - the payout allocation   (core/payouts_from_royalties.py)            *)
(*                                                                         *)
(* SpecChain  : a source is chained by the writer, then the source or the  *)
(*              chain file is edited, then the verifier runs.              *)
(* SpecPayout : the allocation pipeline of main(): normalize, exclusions,  *)
(*              caps, rounding, minimum amount.                            *)
(***************************************************************************)
EXTENDS Integers, Sequences, FiniteSets, TLC

VARIABLES
    source,     \* the artifact as the verifier finds it: a sequence of lines
    written,    \* the artifact as it was when the writer chained it
    chunk,      \* --chunk, the same for writer and verifier
    chain,      \* the chain file: a sequence of entries [blk, upto, dg], the
                \* three tab-separated fields of each stripped non-empty line
    edits,      \* how many edits were made to source / chain after writing
    cpc,        \* "start" | "written" | "verified"
    exits,      \* exit codes of the verifier runs so far, oldest first
    stderr,     \* the diagnostics of the last writer or verifier run
    files,      \* which of "source", "chain" exist on disk
    opened,     \* the files the last writer or verifier run opened
    wexits,     \* exit code of the writer run, once it has run
    S,          \* aggregated share per provider (the dict S of main)
    excl,       \* --exclusions, the set of excluded provider ids
    cap_top1,   \* --cap-top1 (NoCap when not given)
    cap_top3,   \* --cap-top3 (NoCap when not given)
    eur_total,  \* --eur-total, in cents
    min_amount, \* --min-amount, in cents
    reconcile,  \* --reconcile-after-min
    w,          \* the weight map, in units of 1/SCALE
    amounts,    \* the amount map, in cents
    policies,   \* policies_applied: provider -> sequence of tags
    rollover,   \* rollover_rows: sequence of <<provider, amount>>
    rounds,     \* rounds of the cap loop that changed the weights
    ppc,        \* position in main()
    period,     \* --period as given: the parts between "-", each a sequence
                \* of characters
    receipts,   \* the lines of the --input file
    ym,         \* <<year, month>> after "Parse period"
    total_receipts, \* receipts accepted by the aggregation loop
    outputs,    \* the output files that exist: file name -> rows
    pexits,     \* exit code of the payout run, once it has ended
    pstderr,    \* what the payout run printed on stderr
    manifest,   \* MANIFEST.json of the bundle directory: [file, schema,
                \* contract, artifacts_is_dict, artifacts]
    bfiles,     \* the artifact files that exist inside the bundle directory
    tb_json,    \* trust_bundle.json parses as JSON
    orch,       \* which orchestrator made the bundle directory, if any
    bpc,        \* position of the bundle verifier's main()
    bout,       \* stdout of the bundle verifier, line by line
    bexits,     \* exit code of the bundle verifier, once it has ended
    breads,     \* the artifacts whose content the bundle verifier (or the
                \* hash-chain verifier it starts) has read: [key, path]
    hc_runs,    \* how often the hash-chain verifier was started
    reader,     \* the module whose iter_ndjson reads: "payouts" or "validate"
    nd_lines,   \* the physical lines of the NDJSON file, "\n" removed
    nd_lineno,  \* how many of them the for loop of iter_ndjson has taken
    nd_items,   \* what iter_ndjson has yielded so far: [lineno, rec]
    registry,   \* validate.py could import schema.py
    counts,     \* total, valid, error_lines and warn_lines of validate.py
    vpc,        \* position of validate.py's main()
    vout,       \* the health and the exit code validate.py ended with
    tb_arts,    \* bundle["artifacts"] handed to validate_bundle, in order
    tb_pos,     \* how many of them validate_bundle has checked
    tb_errors,  \* errors of validate_bundle
    tb_out,     \* stdout of validate_bundle, line by line
    tb_exits    \* what validate_bundle returned, once it has

chainVars == <<source, written, chunk, chain, edits, cpc, exits, stderr,
               files, opened, wexits>>

receiptVars == <<period, receipts, ym, total_receipts>>

outVars == <<outputs, pexits, pstderr>>

payoutVars == <<S, excl, cap_top1, cap_top3, eur_total, min_amount, reconcile,
                w, amounts, policies, rollover, rounds, ppc,
                period, receipts, ym, total_receipts, outputs, pexits, pstderr>>

bundleVars == <<manifest, bfiles, tb_json, orch, bpc, bout, bexits, breads, hc_runs>>

readerVars == <<reader, nd_lines, nd_lineno, nd_items>>

validateVars == <<registry, counts, vpc, vout>>

tbVars == <<tb_arts, tb_pos, tb_errors, tb_out, tb_exits>>

toolVars == <<readerVars, validateVars, tbVars>>

vars == <<source, written, chunk, chain, edits, cpc, exits, stderr,
          files, opened, wexits,
          S, excl, cap_top1, cap_top3, eur_total, min_amount, reconcile,
          w, amounts, policies, rollover, rounds, ppc,
          period, receipts, ym, total_receipts, outputs, pexits, pstderr,
          manifest, bfiles, tb_json, orch, bpc, bout, bexits, breads, hc_runs,
          reader, nd_lines, nd_lineno, nd_items, registry, counts, vpc, vout,
          tb_arts, tb_pos, tb_errors, tb_out, tb_exits>>

----------------------------------------------------------------------------
(* Bounds *)

MaxLines == 3        \* longest source, blank lines included
MaxChunk == 3        \* largest --chunk
MaxEdits == 1        \* edits between writing and verifying
MaxVerifyRuns == 2   \* verifier runs on the same files

Blank == ""
LineSet == {Blank, "a", "b"}
Sources == UNION {[1..n -> LineSet] : n \in 0..MaxLines}

Min(a, b) == IF a < b THEN a ELSE b

\* Python's a % n for n # 0: the result takes the sign of n
PyMod(a, n) == IF n > 0 THEN a % n ELSE 0 - ((0 - a) % (0 - n))

----------------------------------------------------------------------------
(* SHA-256, taken as collision-free: a hash state is the sequence of the   *)
(* updates it received, each line being fed as the pair                    *)
(* h.update(prev); h.update(s).  A finished digest is its 64-character     *)
(* lowercase hex text; what can differ between two such texts is the       *)
(* bytes they spell (val), and whether the text is well formed (form).     *)

ZeroAnchor == <<>>                 \* b"\x00" * 32
NewSha == <<>>                     \* hashlib.sha256()

Update(h, prev, s) == Append(h, <<prev, s>>)

HexDigest(h) == [val |-> h, flip |-> 0, form |-> "hex64"]

FromHex(text) == text.val

----------------------------------------------------------------------------
(* hashchain_writer.py *)

\* an iter_lines that yields the empty lines too
iter_lines_KeepBlank(lines) == lines

\* iter_lines: non-empty lines only
iter_lines(lines) == SelectSeq(lines, LAMBDA s : s # Blank)

WriterStart == [prev |-> ZeroAnchor, block_idx |-> 0, count |-> 0,
                h |-> NewSha, out |-> <<>>]

\* the body of "for s in iter_lines(args.source)"
\* a writer that records the size of the block instead of the running count
WriterLine_BlockSize(st, s, N) ==
    LET h1 == Update(st.h, st.prev, s)
        c1 == st.count + 1
    IN  IF PyMod(c1, N) = 0
        THEN LET digest == HexDigest(h1)
             IN  [prev |-> FromHex(digest),
                  block_idx |-> st.block_idx + 1,
                  count |-> c1,
                  h |-> NewSha,
                  out |-> Append(st.out,
                                 [blk |-> st.block_idx, upto |-> N, dg |-> digest])]
        ELSE [st EXCEPT !.h = h1, !.count = c1]

WriterLine(st, s, N) ==
    LET h1 == Update(st.h, st.prev, s)
        c1 == st.count + 1
    IN  IF PyMod(c1, N) = 0
        THEN LET digest == HexDigest(h1)
             IN  [prev |-> FromHex(digest),
                  block_idx |-> st.block_idx + 1,
                  count |-> c1,
                  h |-> NewSha,
                  out |-> Append(st.out,
                                 [blk |-> st.block_idx, upto |-> c1, dg |-> digest])]
        ELSE [st EXCEPT !.h = h1, !.count = c1]

RECURSIVE WriterLoop(_, _, _, _)
WriterLoop(lines, N, i, st) ==
    IF i > Len(lines) THEN st
    ELSE WriterLoop(lines, N, i + 1, WriterLine(st, lines[i], N))

\* a writer that forgets the final partial block
WriterFlush_NoPartial(st, N) == st.out

\* Flush final partial block (if any)
WriterFlush(st, N) ==
    IF PyMod(st.count, N) # 0
    THEN Append(st.out, [blk |-> st.block_idx, upto |-> st.count, dg |-> HexDigest(st.h)])
    ELSE st.out

\* the chain file main() leaves behind
WriterMain(lines, N) ==
    WriterFlush(WriterLoop(iter_lines(lines), N, 1, WriterStart), N)

\* one run of main(): exit code, stderr, the files opened, whether the chain
\* file was created and what it holds.  A missing source is fatal before
\* anything is opened.  --chunk is not looked at before the first
\* "count % args.chunk", which every run reaches (in the loop, or at the
\* flush when there is no line) after open(out_path, "w"): with --chunk 0
\* that test raises ZeroDivisionError and leaves the chain file empty.
WriterRun(exists, lines, N) ==
    IF ~exists
    THEN [code |-> 2, err |-> {"FATAL"}, opened |-> {}, created |-> FALSE, out |-> <<>>]
    ELSE IF N = 0
    THEN [code |-> 1, err |-> {"ZeroDivisionError"}, opened |-> {"chain", "source"},
          created |-> TRUE, out |-> <<>>]
    ELSE [code |-> 0, err |-> {}, opened |-> {"chain", "source"},
          created |-> TRUE, out |-> WriterMain(lines, N)]

----------------------------------------------------------------------------
(* verify_hashchain.py *)

VerifierStart == [prev |-> ZeroAnchor, h |-> NewSha, count |-> 0, ok |-> TRUE,
                  entry_idx |-> 0, brk |-> FALSE, err |-> {}]

\* a comparison that skips the recorded texts that are not 64 hex characters
DigestDiffers_SkipNonHex(dg, digest) == dg.form = "hex64" /\ dg # digest

\* "if dg != digest": comparison of the recorded text with the computed text
DigestDiffers(dg, digest) == dg # digest

\* the body of "for raw in fs", for one line
VerifierLine(st, s, entries, N) ==
    IF s = Blank THEN st
    ELSE
    LET h1 == Update(st.h, st.prev, s)
        c1 == st.count + 1
    IN  IF PyMod(c1, N) = 0
        THEN LET digest == HexDigest(h1)
             IN  IF st.entry_idx >= Len(entries)
                 THEN [st EXCEPT !.h = h1, !.count = c1, !.ok = FALSE,
                                 !.brk = TRUE, !.err = @ \cup {"short"}]
                 ELSE LET dg == entries[st.entry_idx + 1].dg
                          bad == DigestDiffers(dg, digest)
                      IN  [prev |-> FromHex(digest),
                           h |-> NewSha,
                           count |-> c1,
                           ok |-> IF bad THEN FALSE ELSE st.ok,
                           entry_idx |-> st.entry_idx + 1,
                           brk |-> FALSE,
                           err |-> IF bad THEN st.err \cup {"mismatch"} ELSE st.err]
        ELSE [st EXCEPT !.h = h1, !.count = c1]

RECURSIVE VerifierLoop(_, _, _, _, _)
VerifierLoop(lines, entries, N, i, st) ==
    IF i > Len(lines) \/ st.brk THEN st
    ELSE VerifierLoop(lines, entries, N, i + 1, VerifierLine(st, lines[i], entries, N))

\* a final check that does not ask whether the chain file has an entry left
VerifierFinal_NoShortCheck(st, entries, N) ==
    IF st.ok /\ PyMod(st.count, N) # 0 /\ st.entry_idx < Len(entries)
          /\ DigestDiffers(entries[st.entry_idx + 1].dg, HexDigest(st.h))
    THEN [st EXCEPT !.ok = FALSE, !.err = @ \cup {"mismatch_final"}]
    ELSE st

\* "Verifica blocco finale (parziale)"
VerifierFinal(st, entries, N) ==
    IF st.ok /\ PyMod(st.count, N) # 0
    THEN IF st.entry_idx >= Len(entries)
         THEN [st EXCEPT !.ok = FALSE, !.err = @ \cup {"short_final"}]
         ELSE IF DigestDiffers(entries[st.entry_idx + 1].dg, HexDigest(st.h))
              THEN [st EXCEPT !.ok = FALSE, !.err = @ \cup {"mismatch_final"}]
              ELSE st
    ELSE st

\* main(): exit code and diagnostics
VerifierMain(lines, entries, N) ==
    LET st == VerifierFinal(VerifierLoop(lines, entries, N, 1, VerifierStart), entries, N)
    IN  [code |-> IF st.ok THEN 0 ELSE 3, err |-> st.err]

\* one run of main(): a missing source or chain file is fatal before anything
\* is opened; --chunk is first used at "count % args.chunk", in the loop or at
\* the final check, after both files were opened
VerifierRun(exist, lines, entries, N) ==
    IF ~exist
    THEN [code |-> 2, err |-> {"FATAL"}, opened |-> {}]
    ELSE IF N = 0
    THEN [code |-> 1, err |-> {"ZeroDivisionError"}, opened |-> {"chain", "source"}]
    ELSE LET r == VerifierMain(lines, entries, N)
         IN  [code |-> r.code, err |-> r.err, opened |-> {"chain", "source"}]

----------------------------------------------------------------------------
(* core/payouts_from_royalties.py                                          *)
(*                                                                         *)
(* Python floats are modelled as fixed-point numbers: a weight is an       *)
(* integer count of 1/SCALE, every division and multiplication rounds to   *)
(* the nearest unit.  Money is an integer count of cents.  The tolerances  *)
(* 1e-12 and 1e-9 of the code lie below one unit.                          *)

SCALE == 10000
EPS == 0             \* 1e-12, in units of 1/SCALE
NoCap == -1          \* None
MaxCapRounds == 10   \* for _ in range(10)

MaxShare == 2        \* largest aggregated share of one provider

ProvOrder == <<"A", "B", "C", "D", "E", "F">>     \* dict insertion order of S
Providers == {ProvOrder[i] : i \in 1..Len(ProvOrder)}
\* the providers of the share maps that are tried exhaustively
Enumerated == SubSeq(ProvOrder, 1, 4)
Pos(p) == CHOOSE i \in 1..Len(ProvOrder) : ProvOrder[i] = p

Cap1Values == {NoCap, 0, SCALE \div 5, SCALE \div 2}   \* --cap-top1 0, 0.2, 0.5
Cap3Values == {NoCap, (4 * SCALE) \div 5}      \* --cap-top3 0.8
Budgets == {0, 1, 2, 100, 153, 100 * 100}      \* 0.00, 0.01, 0.02, 1.00, 1.53, 100.00
MinAmounts == {0, 30}                          \* 0 (off), 0.30

Abs(x) == IF x < 0 THEN -x ELSE x

RECURSIVE SumOver(_, _)
SumOver(f, D) ==
    IF D = {} THEN 0
    ELSE LET k == CHOOSE x \in D : TRUE IN f[k] + SumOver(f, D \ {k})

Sum(f) == SumOver(f, DOMAIN f)

\* a / b and a * b on floats
FDiv(a, b) == (2 * a * SCALE + b) \div (2 * b)
FMul(a, b) == (2 * a * b + SCALE) \div (2 * SCALE)

\* max(d.items(), key=lambda kv: kv[1])[0]: the first key, in dict order,
\* that holds the largest value
MaxKey(d) ==
    CHOOSE k \in DOMAIN d :
        \A j \in DOMAIN d : d[j] < d[k] \/ (d[j] = d[k] /\ Pos(k) <= Pos(j))

\* sorted(d.items(), key=lambda kv: kv[1], reverse=True): k comes before j
Before(d, k, j) == d[k] > d[j] \/ (d[k] = d[j] /\ Pos(k) < Pos(j))

\* the keys of sorted(...)[:3]
Top3(d) == {k \in DOMAIN d : Cardinality({j \in DOMAIN d : Before(d, j, k)}) < 3}

normalize_weights(d) ==
    LET tot == SumOver(d, {k \in DOMAIN d : d[k] > 0})
    IN  IF tot <= 0 THEN [k \in DOMAIN d |-> 0]
        ELSE [k \in DOMAIN d |-> IF d[k] > 0 THEN FDiv(d[k], tot) ELSE 0]

\* which providers apply_exclusions zeroes and tags
Excluded(d, ex) == {p \in ex : p \in DOMAIN d /\ d[p] > 0}

apply_exclusions(d, ex) ==
    normalize_weights([k \in DOMAIN d |-> IF k \in Excluded(d, ex) THEN 0 ELSE d[k]])

\* a redistribution that gives every free provider the same part of the excess
redistribute_Equal(d, capped, excess_from) ==
    LET d1 == [k \in DOMAIN d |->
                 IF k \in DOMAIN excess_from THEN d[k] - excess_from[k] ELSE d[k]]
        free == {k \in DOMAIN d1 : k \notin capped /\ d1[k] > 0}
    IN  IF free = {} THEN d1
        ELSE [k \in DOMAIN d1 |->
                IF k \in free THEN d1[k] + Sum(excess_from) \div Cardinality(free)
                ELSE d1[k]]

\* redistribute(excess_from), with the capped set as it is at the call
redistribute(d, capped, excess_from) ==
    LET d1 == [k \in DOMAIN d |->
                 IF k \in DOMAIN excess_from THEN d[k] - excess_from[k] ELSE d[k]]
        free == {k \in DOMAIN d1 : k \notin capped /\ d1[k] > 0}
        tot_free == SumOver(d1, free)
        pos == {k \in DOMAIN d1 : d1[k] > 0}
        tot_pos == SumOver(d1, pos)
        inc_total == Sum(excess_from)
    IN  IF tot_free <= 0
        THEN IF tot_pos > 0
             THEN [k \in DOMAIN d1 |-> IF k \in pos THEN FDiv(d1[k], tot_pos) ELSE d1[k]]
             ELSE d1
        ELSE [k \in DOMAIN d1 |->
                IF k \in free THEN d1[k] + FMul(FDiv(d1[k], tot_free), inc_total)
                ELSE d1[k]]

AddTag(pol, K, tag) ==
    [k \in DOMAIN pol |-> IF k \in K THEN Append(pol[k], tag) ELSE pol[k]]

HasTag(pol, k, tag) == \E i \in 1..Len(pol[k]) : pol[k][i] = tag

\* "Cap on top1 share", one pass; st = [w, capped, pol, changed]
CapTop1(st, c1) ==
    IF c1 # NoCap /\ DOMAIN st.w # {}
    THEN LET top1 == MaxKey(st.w)
         IN  IF st.w[top1] > c1 + EPS
             THEN LET ex == st.w[top1] - c1
                      capped == st.capped \cup {top1}
                  IN  [w |-> redistribute(st.w, capped, [k \in {top1} |-> ex]),
                       capped |-> capped,
                       pol |-> AddTag(st.pol, {top1}, "cap_top1"),
                       changed |-> TRUE]
             ELSE st
    ELSE st

\* "Cap on top3 cumulative share", one pass
CapTop3(st, c3) ==
    IF c3 # NoCap /\ Cardinality(DOMAIN st.w) >= 3
    THEN LET top3 == Top3(st.w)
             sum_top3 == SumOver(st.w, top3)
         IN  IF sum_top3 > c3 + EPS
             THEN LET excess == sum_top3 - c3
                      capped == st.capped \cup top3
                      ex_map == [k \in top3 |-> FMul(FDiv(st.w[k], sum_top3), excess)]
                  IN  [w |-> redistribute(st.w, capped, ex_map),
                       capped |-> capped,
                       pol |-> AddTag(st.pol,
                                      {k \in top3 : ~HasTag(st.pol, k, "cap_top3")},
                                      "cap_top3"),
                       changed |-> TRUE]
             ELSE st
    ELSE st

\* the body of "for _ in range(10)", up to the break test
CapRound(st, c1, c3) == CapTop3(CapTop1([st EXCEPT !.changed = FALSE], c1), c3)

\* a loop that never takes the break
RECURSIVE CapLoop_NoBreak(_, _, _, _, _)
CapLoop_NoBreak(st, c1, c3, n, done) ==
    IF n = 0 THEN [w |-> st.w, pol |-> st.pol, rounds |-> done]
    ELSE LET r == CapRound(st, c1, c3)
         IN  CapLoop_NoBreak([r EXCEPT !.w = normalize_weights(r.w)], c1, c3, n - 1, done + 1)

\* the loop: n rounds are left; returns [w, capped, pol, changed, rounds]
RECURSIVE CapLoop(_, _, _, _, _)
CapLoop(st, c1, c3, n, done) ==
    IF n = 0 THEN [w |-> st.w, pol |-> st.pol, rounds |-> done]
    ELSE LET r == CapRound(st, c1, c3)
         IN  IF ~r.changed THEN [w |-> r.w, pol |-> r.pol, rounds |-> done]
             ELSE CapLoop([r EXCEPT !.w = normalize_weights(r.w)], c1, c3, n - 1, done + 1)

apply_caps(d, c1, c3, pol) ==
    IF DOMAIN d = {} THEN [w |-> d, pol |-> pol, rounds |-> 0]
    ELSE CapLoop([w |-> d, capped |-> {}, pol |-> pol, changed |-> FALSE],
                 c1, c3, MaxCapRounds, 0)

\* round(weights[p] * eur_total + 1e-12, 2), in cents: the bias sends an exact
\* half upwards
RoundBiased(wp, total) == (2 * wp * total + SCALE) \div (2 * SCALE)

\* a rounding that leaves the residual where it is
Reconcile_NoResidual(rounded, total) == rounded

\* the reconciliation of a rounded map back to total: the whole residual goes
\* to the first largest amount
Reconcile(rounded, total) ==
    LET diff == total - Sum(rounded)
    IN  IF Abs(diff) >= 1 /\ DOMAIN rounded # {}
        THEN [rounded EXCEPT ![MaxKey(rounded)] = @ + diff]
        ELSE rounded

\* a rounding that shares the residual out, a cent at a time, in map order
round_amounts_Spread(weights, total) ==
    LET rounded == [p \in DOMAIN weights |-> RoundBiased(weights[p], total)]
        diff == total - Sum(rounded)
    IN  [p \in DOMAIN weights |->
            IF diff > 0 /\ Pos(p) <= diff THEN rounded[p] + 1
            ELSE IF diff < 0 /\ Pos(p) <= 0 - diff THEN rounded[p] - 1
            ELSE rounded[p]]

round_amounts(weights, total) ==
    Reconcile([p \in DOMAIN weights |-> RoundBiased(weights[p], total)], total)

\* "Min-amount threshold": who is zeroed
BelowMin(am, m) == {p \in DOMAIN am : am[p] > 0 /\ am[p] < m}

\* rollover_rows, in dict order
RECURSIVE RolloverRows(_, _, _)
RolloverRows(am, K, i) ==
    IF i > Len(ProvOrder) THEN <<>>
    ELSE (IF ProvOrder[i] \in K THEN << <<ProvOrder[i], am[ProvOrder[i]]>> >> ELSE <<>>)
         \o RolloverRows(am, K, i + 1)

\* round(amounts[k] + (survivors[k] / tot_surv) * removed_total, 2) has no
\* bias: an exact half cent falls to either side, as the float error decides.
\* The set of cents the share of k can round to:
ShareCents(sk, tot_surv, removed_total) ==
    LET num == sk * removed_total
        q == num \div tot_surv
        r2 == 2 * (num % tot_surv)
    IN  IF r2 < tot_surv THEN {q}
        ELSE IF r2 > tot_surv THEN {q + 1}
        ELSE {q, q + 1}

\* the amount maps "Re-allocate pro-rata to surviving providers" can produce,
\* before the final cent reconciliation
Reallocated(am, removed_total) ==
    LET surv == {k \in DOMAIN am : am[k] > 0}
        tot_surv == SumOver(am, surv)
        ties == {k \in surv : Cardinality(ShareCents(am[k], tot_surv, removed_total)) = 2}
    IN  {[k \in DOMAIN am |->
            IF k \notin surv THEN am[k]
            ELSE LET c == ShareCents(am[k], tot_surv, removed_total)
                     lo == CHOOSE x \in c : \A y \in c : x <= y
                 IN  am[k] + (IF k \in up THEN lo + 1 ELSE lo)] : up \in SUBSET ties}

\* the amount maps the whole min-amount step can leave
MinAmountStep(am, m, rec, total) ==
    LET K == BelowMin(am, m)
        am1 == [p \in DOMAIN am |-> IF p \in K THEN 0 ELSE am[p]]
        removed_total == SumOver(am, K)
        tot_surv == SumOver(am1, {k \in DOMAIN am1 : am1[k] > 0})
    IN  IF m > 0
        THEN IF rec /\ removed_total > 0 /\ tot_surv > 0
             THEN {Reconcile(a, total) : a \in Reallocated(am1, removed_total)}
             ELSE {am1}
        ELSE {am}

----------------------------------------------------------------------------
(* main(): --period, the receipt lines and the aggregation loop *)

Empty == <<>>

NoManifest ==
    [file |-> "missing", schema |-> "", contract |-> "", artifacts_is_dict |-> FALSE,
     artifacts |-> <<>>]

ReaderIdle ==
    /\ reader = "none"
    /\ nd_lines = <<>>
    /\ nd_lineno = 0
    /\ nd_items = <<>>

NoCounts == [total |-> 0, valid |-> 0, error_lines |-> 0, warn_lines |-> 0]

ValidateIdle ==
    /\ registry = FALSE
    /\ counts = NoCounts
    /\ vpc = "idle"
    /\ vout = <<>>

TbIdle ==
    /\ tb_arts = <<>>
    /\ tb_pos = 0
    /\ tb_errors = 0
    /\ tb_out = <<>>
    /\ tb_exits = <<>>

ToolsIdle == ReaderIdle /\ ValidateIdle /\ TbIdle

BundleIdle ==
    /\ manifest = NoManifest
    /\ bfiles = {}
    /\ tb_json = FALSE
    /\ orch = "none"
    /\ bpc = "idle"
    /\ bout = <<>>
    /\ bexits = <<>>
    /\ breads = {}
    /\ hc_runs = 0

MaxReceipts == 2     \* longest --input file, in lines

Digits == <<"0", "1", "2", "3", "4", "5", "6", "7", "8", "9">>
IsDigit(c) == \E i \in 1..Len(Digits) : Digits[i] = c
DigitVal(c) == (CHOOSE i \in 1..Len(Digits) : Digits[i] = c) - 1

\* int(part) succeeds
IsInt(part) == Len(part) > 0 /\ \A i \in 1..Len(part) : IsDigit(part[i])

\* int(part)
RECURSIVE IntVal(_)
IntVal(part) ==
    IF part = <<>> THEN 0
    ELSE 10 * IntVal(SubSeq(part, 1, Len(part) - 1)) + DigitVal(part[Len(part)])

\* args.period.split("-") for the --period values tried
Period_2025_11 == << <<"2", "0", "2", "5">>, <<"1", "1">> >>
Period_2025_01 == << <<"2", "0", "2", "5">>, <<"0", "1">> >>
Period_2025_1 == << <<"2", "0", "2", "5">>, <<"1">> >>
Period_2025_13 == << <<"2", "0", "2", "5">>, <<"1", "3">> >>
Period_not_a_period == << <<"n", "o", "t">>, <<"a">>, <<"p", "e", "r", "i", "o", "d">> >>
Period_2025 == << <<"2", "0", "2", "5">> >>

Periods == {Period_2025_11, Period_2025_01, Period_2025_1, Period_2025_13,
            Period_not_a_period, Period_2025}

\* "year, month = map(int, args.period.split("-")); assert 1 <= month <= 12"
\* raises
PeriodRaises(p) ==
    \/ Len(p) # 2
    \/ \E i \in 1..Len(p) : ~IsInt(p[i])
    \/ ~(1 <= IntVal(p[2]) /\ IntVal(p[2]) <= 12)

FallbackPeriod == <<2025, 11>>

\* "Parse period": <<year, month>>, and whether the [WARN] was printed
ParsePeriodArg(p) ==
    IF PeriodRaises(p) THEN [ym |-> FallbackPeriod, warned |-> TRUE]
    ELSE [ym |-> <<IntVal(p[1]), IntVal(p[2])>>, warned |-> FALSE]

ROYALTY_SCHEMA == "royalty_receipt.v1"
TOL_SHARE_SUM == SCALE \div 50        \* 0.02

\* one line of the input: what json.loads makes of it (json), and for an
\* object its schema, the <<year, month>> of its timestamp (<<>> when missing
\* or unparseable), whether top_k is a list, and the entries of that list
Raw(kind) == [json |-> kind, schema |-> "", ts |-> <<>>, is_list |-> FALSE, top_k |-> <<>>]
Obj(schema, ts, is_list, top_k) ==
    [json |-> "object", schema |-> schema, ts |-> ts, is_list |-> is_list, top_k |-> top_k]

\* one entry of top_k: an object with provider_id, shard_id and share, or
\* something that is not an object
Entry(pid, share) == [obj |-> TRUE, pid |-> pid, share |-> share]
NonObjectEntry == [obj |-> FALSE, pid |-> "", share |-> 0]

Nov == <<2025, 11>>
Jan == <<2025, 1>>
TopAB == <<Entry("A", (3 * SCALE) \div 5), Entry("B", (2 * SCALE) \div 5)>>
TopB == <<Entry("B", SCALE)>>
TopA == <<Entry("A", SCALE)>>

GoodLines ==
    {Obj(ROYALTY_SCHEMA, Nov, TRUE, TopAB),
     Obj(ROYALTY_SCHEMA, Nov, TRUE, TopA),
     Obj(ROYALTY_SCHEMA, Nov, TRUE, TopB),
     Obj(ROYALTY_SCHEMA, Jan, TRUE, TopB),
     \* an entry with a negative share is left out of the row
     Obj(ROYALTY_SCHEMA, Nov, TRUE, <<Entry("A", 0 - SCALE), Entry("B", SCALE)>>)}

MalformedLines ==
    {Raw("invalid"),                                   \* not JSON
     Raw("array"), Raw("number"),                      \* JSON, not an object
     Obj("other", Nov, TRUE, TopB),                    \* wrong schema
     Obj(ROYALTY_SCHEMA, Nov, FALSE, <<>>),            \* top_k not a list
     Obj(ROYALTY_SCHEMA, Nov, TRUE, <<>>),             \* top_k empty
     Obj(ROYALTY_SCHEMA, Nov, TRUE, <<Entry("A", SCALE), NonObjectEntry>>),
     Obj(ROYALTY_SCHEMA, Nov, TRUE, <<Entry("A", SCALE \div 2)>>)}  \* sum 0.5

ReceiptLines == {Raw("blank")} \cup GoodLines \cup MalformedLines

\* same_period(ts, year, month)
same_period(ts, p) == ts # <<>> /\ ts = p

\* S[pid] += v on the defaultdict
AddTo(d, pid, v) ==
    IF pid \in DOMAIN d THEN [d EXCEPT ![pid] = @ + v] ELSE d @@ (pid :> v)

RECURSIVE AddRow(_, _, _, _)
AddRow(d, entries, s, i) ==
    IF i > Len(entries) THEN d
    ELSE AddRow(AddTo(d, entries[i].pid, FDiv(entries[i].share, s)), entries, s, i + 1)

RECURSIVE SumShares(_, _)
SumShares(entries, i) ==
    IF i > Len(entries) THEN 0 ELSE entries[i].share + SumShares(entries, i + 1)

AggStart == [S |-> Empty, total_receipts |-> 0, skipped_bad_sum |-> 0, raised |-> FALSE]

\* json.loads gave a value on which '"__parse_error__" in rec' or
\* rec.get("schema") raises (TypeError, AttributeError)
NotADict(rec) == rec.json \notin {"object", "invalid"}

\* the body of "for lineno, rec in iter_ndjson(args.input)" for one line
AggLine(st, rec, p) ==
    IF rec.json = "blank" THEN st                      \* iter_ndjson: "if not s"
    ELSE IF rec.json = "invalid" THEN st               \* "__parse_error__" in rec
    ELSE IF NotADict(rec) THEN [st EXCEPT !.raised = TRUE]
    ELSE IF rec.schema # ROYALTY_SCHEMA THEN st
    ELSE IF ~same_period(rec.ts, p) THEN st
    ELSE IF ~rec.is_list \/ rec.top_k = <<>> THEN st
    ELSE IF \E i \in 1..Len(rec.top_k) : ~rec.top_k[i].obj
         THEN [st EXCEPT !.raised = TRUE]              \* a.get("share") raises
    ELSE LET valid_entries == SelectSeq(rec.top_k, LAMBDA a : a.share >= 0)
             s == SumShares(valid_entries, 1)
         IN  IF s <= 0 THEN st
             ELSE IF Abs(s - SCALE) > TOL_SHARE_SUM
                  THEN [st EXCEPT !.skipped_bad_sum = @ + 1]
                  ELSE [st EXCEPT !.S = AddRow(@, valid_entries, s, 1),
                                  !.total_receipts = @ + 1]

\* the loop; an exception ends it
RECURSIVE AggLoop(_, _, _, _)
AggLoop(lines, p, i, st) ==
    IF i > Len(lines) \/ st.raised THEN st
    ELSE AggLoop(lines, p, i + 1, AggLine(st, lines[i], p))

Aggregated(lines, p) == AggLoop(lines, p, 1, AggStart)

CsvHeader == <<"provider_id", "period", "currency", "gross_revenue", "share_agg",
               "amount", "policies_applied">>

\* an empty branch that writes an empty CSV file
EmptyOutputFiles_NoHeader == ("out_csv" :> <<>>) @@ ("out_ndjson" :> <<>>)

\* "Write minimal empty outputs": the CSV with its header row, the NDJSON
\* with nothing in it
EmptyOutputFiles == ("out_csv" :> <<CsvHeader>>) @@ ("out_ndjson" :> <<>>)

----------------------------------------------------------------------------
(* SpecPayout: actions *)

ReceiptsIdle ==
    /\ period = <<>>
    /\ receipts = <<>>
    /\ ym = <<>>

OutputsIdle ==
    /\ outputs = Empty
    /\ pexits = <<>>
    /\ pstderr = {}

PayoutIdle ==
    /\ S = Empty
    /\ excl = {}
    /\ cap_top1 = NoCap
    /\ cap_top3 = NoCap
    /\ eur_total = 0
    /\ min_amount = 0
    /\ reconcile = FALSE
    /\ w = Empty
    /\ amounts = Empty
    /\ policies = Empty
    /\ rollover = <<>>
    /\ rounds = 0
    /\ ppc = "idle"
    /\ total_receipts = 0
    /\ ReceiptsIdle
    /\ OutputsIdle

----------------------------------------------------------------------------
(* SpecChain: actions *)

ChainInit ==
    /\ source \in Sources
    /\ written = source
    /\ chunk \in 1..MaxChunk
    /\ chain = <<>>
    /\ edits = 0
    /\ cpc = "start"
    /\ exits = <<>>
    /\ stderr = {}
    /\ files = {"source"}
    /\ opened = {}
    /\ wexits = <<>>
    /\ PayoutIdle
    /\ BundleIdle
    /\ ToolsIdle

\* python hashchain_writer.py --source S --out C --chunk N
RunWriter ==
    /\ cpc = "start"
    /\ LET r == WriterRun("source" \in files, source, chunk)
       IN  /\ chain' = r.out
           /\ files' = IF r.created THEN files \cup {"chain"} ELSE files
           /\ opened' = r.opened
           /\ stderr' = r.err
           /\ wexits' = <<r.code>>
    /\ cpc' = "written"
    /\ UNCHANGED <<source, written, chunk, edits, exits>>
    /\ UNCHANGED payoutVars
    /\ UNCHANGED bundleVars
    /\ UNCHANGED toolVars

CanEdit == cpc = "written" /\ edits < MaxEdits

Edited == /\ edits' = edits + 1
          /\ UNCHANGED <<written, chunk, cpc, exits, stderr, files, opened, wexits>>
          /\ UNCHANGED payoutVars
          /\ UNCHANGED bundleVars
          /\ UNCHANGED toolVars

SpuriousDigest == [val |-> ZeroAnchor, flip |-> 0, form |-> "hex64"]   \* "a" * 64

\* a spurious line is appended to the chain file
AppendEntry ==
    /\ CanEdit
    /\ \E b \in {Len(chain), 99} :
          chain' = Append(chain, [blk |-> b, upto |-> 9999, dg |-> SpuriousDigest])
    /\ UNCHANGED source
    /\ Edited

\* the block_idx field of one chain line is altered
TamperBlockIdx ==
    /\ CanEdit
    /\ \E i \in 1..Len(chain) : chain' = [chain EXCEPT ![i].blk = 99]
    /\ UNCHANGED source
    /\ Edited

\* the digest field of one chain line is altered: one character flipped,
\* a character outside [0-9a-f], or a character dropped
TamperDigest ==
    /\ CanEdit
    /\ \E i \in 1..Len(chain) :
          \/ chain' = [chain EXCEPT ![i].dg.flip = 1]
          \/ \E f \in {"nonhex", "short"} : chain' = [chain EXCEPT ![i].dg.form = f]
    /\ UNCHANGED source
    /\ Edited

\* one line of the chain file is removed
DropEntry ==
    /\ CanEdit
    /\ \E i \in 1..Len(chain) :
          chain' = SubSeq(chain, 1, i - 1) \o SubSeq(chain, i + 1, Len(chain))
    /\ UNCHANGED source
    /\ Edited

\* one non-blank line of the source is replaced by another text
AlterLine ==
    /\ CanEdit
    /\ \E i \in 1..Len(source) : \E v \in LineSet \ {Blank, source[i]} :
          /\ source[i] # Blank
          /\ source' = [source EXCEPT ![i] = v]
    /\ UNCHANGED chain
    /\ Edited

\* two neighbouring lines of the source change places
SwapLines ==
    /\ CanEdit
    /\ \E i \in 1..(Len(source) - 1) :
          /\ source[i] # source[i + 1]
          /\ source' = [source EXCEPT ![i] = source[i + 1], ![i + 1] = source[i]]
    /\ UNCHANGED chain
    /\ Edited

\* a line is appended to the source
AppendLine ==
    /\ CanEdit
    /\ Len(source) < MaxLines + 1
    /\ \E v \in LineSet : source' = Append(source, v)
    /\ UNCHANGED chain
    /\ Edited

\* the source is truncated to its first k lines
TruncateSource ==
    /\ CanEdit
    /\ \E k \in 0..(Len(source) - 1) : source' = SubSeq(source, 1, k)
    /\ UNCHANGED chain
    /\ Edited

\* one line is removed from the source
RemoveLine ==
    /\ CanEdit
    /\ \E i \in 1..Len(source) :
          source' = SubSeq(source, 1, i - 1) \o SubSeq(source, i + 1, Len(source))
    /\ UNCHANGED chain
    /\ Edited

\* an empty line is inserted somewhere in the source
InsertBlankLine ==
    /\ cpc = "written"
    /\ Len(source) < MaxLines + 1
    /\ \E i \in 0..Len(source) :
          source' = SubSeq(source, 1, i) \o <<Blank>> \o SubSeq(source, i + 1, Len(source))
    /\ UNCHANGED <<written, chunk, chain, edits, cpc, exits, stderr, files, opened, wexits>>
    /\ UNCHANGED payoutVars
    /\ UNCHANGED bundleVars
    /\ UNCHANGED toolVars

\* an empty line is removed from the source
RemoveBlankLine ==
    /\ cpc = "written"
    /\ \E i \in 1..Len(source) :
          /\ source[i] = Blank
          /\ source' = SubSeq(source, 1, i - 1) \o SubSeq(source, i + 1, Len(source))
    /\ UNCHANGED <<written, chunk, chain, edits, cpc, exits, stderr, files, opened, wexits>>
    /\ UNCHANGED payoutVars
    /\ UNCHANGED bundleVars
    /\ UNCHANGED toolVars

\* python verify_hashchain.py --source S --chain C --chunk N
RunVerifier ==
    /\ cpc \in {"written", "verified"}
    /\ Len(exits) < MaxVerifyRuns
    /\ LET r == VerifierRun({"source", "chain"} \subseteq files, source, chain, chunk)
       IN  /\ exits' = Append(exits, r.code)
           /\ stderr' = r.err
           /\ opened' = r.opened
    /\ cpc' = "verified"
    /\ UNCHANGED <<source, written, chunk, chain, edits, files, wexits>>
    /\ UNCHANGED payoutVars
    /\ UNCHANGED bundleVars
    /\ UNCHANGED toolVars

ChainNext ==
    \/ RunWriter
    \/ AppendEntry
    \/ TamperBlockIdx
    \/ TamperDigest
    \/ DropEntry
    \/ AlterLine
    \/ SwapLines
    \/ AppendLine
    \/ TruncateSource
    \/ RemoveLine
    \/ InsertBlankLine
    \/ RemoveBlankLine
    \/ RunVerifier

SpecChain == ChainInit /\ [][ChainNext]_vars

----------------------------------------------------------------------------
(* SpecChunk: writer and verifier run with a --chunk that is not positive,  *)
(* on a source that exists or not                                           *)

NonPositiveChunks == {0 - n : n \in 0..MaxChunk}

ChunkInit ==
    /\ source \in Sources
    /\ written = source
    /\ chunk \in NonPositiveChunks
    /\ chain = <<>>
    /\ edits = 0
    /\ cpc = "start"
    /\ exits = <<>>
    /\ stderr = {}
    /\ files \in {{}, {"source"}}
    /\ files = {} => source = <<>>
    /\ opened = {}
    /\ wexits = <<>>
    /\ PayoutIdle
    /\ BundleIdle
    /\ ToolsIdle

ChunkNext ==
    \/ RunWriter
    \/ RunVerifier

SpecChunk == ChunkInit /\ [][ChunkNext]_vars

----------------------------------------------------------------------------
(* SpecPayout: initial state and steps of main() *)

ChainIdle ==
    /\ source = <<>>
    /\ written = <<>>
    /\ chunk = 1
    /\ chain = <<>>
    /\ edits = 0
    /\ cpc = "idle"
    /\ exits = <<>>
    /\ stderr = {}
    /\ files = {}
    /\ opened = {}
    /\ wexits = <<>>

\* the aggregate of ten receipts: six name A alone, three B, one C
ExampleShares == ("A" :> 6) @@ ("B" :> 3) @@ ("C" :> 1)

\* the aggregate of 51 receipts: ten name A alone, ten B, .., ten E, one F
SixShares == [p \in Providers |-> IF p = "F" THEN 1 ELSE 10]

\* after the aggregation loop: S holds the providers seen, in order of first
\* appearance; the policy arguments are read when main() first uses them
PayoutInit ==
    /\ \/ \E n \in 1..Len(Enumerated) :
             S \in [{Enumerated[i] : i \in 1..n} -> 0..MaxShare]
       \/ S = ExampleShares
       \/ S = SixShares
    /\ excl \in SUBSET {Enumerated[i] : i \in 1..Len(Enumerated)}
    /\ cap_top1 = NoCap
    /\ cap_top3 = NoCap
    /\ eur_total = 0
    /\ min_amount = 0
    /\ reconcile = FALSE
    /\ w = Empty
    /\ amounts = Empty
    /\ policies = [k \in DOMAIN S |-> <<>>]
    /\ rollover = <<>>
    /\ rounds = 0
    /\ ppc = "aggregated"
    /\ total_receipts = 1
    /\ ReceiptsIdle
    /\ OutputsIdle
    /\ ChainIdle
    /\ BundleIdle
    /\ ToolsIdle

\* "if total_receipts == 0 or sum(S.values()) <= 0": empty outputs, exit 0
EmptyOutputs ==
    /\ ppc = "aggregated"
    /\ total_receipts = 0 \/ Sum(S) <= 0
    /\ pstderr' = pstderr \cup {"[PAYOUT] No valid receipts"}
    /\ outputs' = EmptyOutputFiles
    /\ pexits' = <<0>>
    /\ ppc' = "empty"
    /\ UNCHANGED <<S, excl, cap_top1, cap_top3, eur_total, min_amount, reconcile,
                   w, amounts, policies, rollover, rounds>>
    /\ UNCHANGED receiptVars
    /\ UNCHANGED chainVars
    /\ UNCHANGED bundleVars
    /\ UNCHANGED toolVars

\* w = normalize_weights(S)
Normalize ==
    /\ ppc = "aggregated"
    /\ ~(total_receipts = 0 \/ Sum(S) <= 0)
    /\ w' = normalize_weights(S)
    /\ ppc' = "normalized"
    /\ UNCHANGED <<S, excl, cap_top1, cap_top3, eur_total, min_amount, reconcile,
                   amounts, policies, rollover, rounds>>
    /\ UNCHANGED receiptVars
    /\ UNCHANGED outVars
    /\ UNCHANGED chainVars
    /\ UNCHANGED bundleVars
    /\ UNCHANGED toolVars

\* if excl: w = apply_exclusions(w, excl, policies_applied)
ApplyExclusions ==
    /\ ppc = "normalized"
    /\ w' = IF excl # {} THEN apply_exclusions(w, excl) ELSE w
    /\ policies' = IF excl # {} THEN AddTag(policies, Excluded(w, excl), "excluded")
                   ELSE policies
    /\ ppc' = "excluded"
    /\ UNCHANGED <<S, excl, cap_top1, cap_top3, eur_total, min_amount, reconcile,
                   amounts, rollover, rounds>>
    /\ UNCHANGED receiptVars
    /\ UNCHANGED outVars
    /\ UNCHANGED chainVars
    /\ UNCHANGED bundleVars
    /\ UNCHANGED toolVars

\* if args.cap_top1 is not None or args.cap_top3 is not None: w = apply_caps(...)
ApplyCaps ==
    /\ ppc = "excluded"
    /\ \E c1 \in Cap1Values, c3 \in Cap3Values :
          LET r == IF c1 # NoCap \/ c3 # NoCap
                   THEN apply_caps(w, c1, c3, policies)
                   ELSE [w |-> w, pol |-> policies, rounds |-> 0]
          IN  /\ cap_top1' = c1
              /\ cap_top3' = c3
              /\ w' = r.w
              /\ policies' = r.pol
              /\ rounds' = r.rounds
    /\ ppc' = "capped"
    /\ UNCHANGED <<S, excl, eur_total, min_amount, reconcile, amounts, rollover>>
    /\ UNCHANGED receiptVars
    /\ UNCHANGED outVars
    /\ UNCHANGED chainVars
    /\ UNCHANGED bundleVars
    /\ UNCHANGED toolVars

\* amounts = round_amounts(w, args.eur_total)
RoundAmounts ==
    /\ ppc = "capped"
    /\ \E total \in Budgets :
          /\ eur_total' = total
          /\ amounts' = round_amounts(w, total)
    /\ ppc' = "rounded"
    /\ UNCHANGED <<S, excl, cap_top1, cap_top3, min_amount, reconcile,
                   w, policies, rollover, rounds>>
    /\ UNCHANGED receiptVars
    /\ UNCHANGED outVars
    /\ UNCHANGED chainVars
    /\ UNCHANGED bundleVars
    /\ UNCHANGED toolVars

\* "Min-amount threshold", with the optional reconciliation
MinAmount ==
    /\ ppc = "rounded"
    /\ \E m \in MinAmounts, rec \in BOOLEAN :
          /\ min_amount' = m
          /\ reconcile' = rec
          /\ amounts' \in MinAmountStep(amounts, m, rec, eur_total)
          /\ rollover' = IF m > 0 THEN RolloverRows(amounts, BelowMin(amounts, m), 1)
                         ELSE <<>>
          /\ policies' = IF m > 0 THEN AddTag(policies, BelowMin(amounts, m), "min_amount")
                         ELSE policies
    /\ ppc' = "done"
    /\ UNCHANGED <<S, excl, cap_top1, cap_top3, eur_total, w, rounds>>
    /\ UNCHANGED receiptVars
    /\ UNCHANGED outVars
    /\ UNCHANGED chainVars
    /\ UNCHANGED bundleVars
    /\ UNCHANGED toolVars

PayoutNext ==
    \/ EmptyOutputs
    \/ Normalize
    \/ ApplyExclusions
    \/ ApplyCaps
    \/ RoundAmounts
    \/ MinAmount

SpecPayout == PayoutInit /\ [][PayoutNext]_vars

----------------------------------------------------------------------------
(* SpecReceipts: main() from its arguments to the weights: the period is   *)
(* parsed, the input is aggregated, and either the empty outputs are       *)
(* written or the weights are normalized                                   *)

ReceiptsInit ==
    /\ period \in Periods
    /\ receipts \in UNION {[1..n -> ReceiptLines] : n \in 0..MaxReceipts}
    /\ ym = <<>>
    /\ total_receipts = 0
    /\ S = Empty
    /\ excl = {}
    /\ cap_top1 = NoCap
    /\ cap_top3 = NoCap
    /\ eur_total = 0
    /\ min_amount = 0
    /\ reconcile = FALSE
    /\ w = Empty
    /\ amounts = Empty
    /\ policies = Empty
    /\ rollover = <<>>
    /\ rounds = 0
    /\ ppc = "start"
    /\ OutputsIdle
    /\ ChainIdle
    /\ BundleIdle
    /\ ToolsIdle

\* "Parse period"
ParsePeriod ==
    /\ ppc = "start"
    /\ LET r == ParsePeriodArg(period)
       IN  /\ ym' = r.ym
           /\ pstderr' = IF r.warned THEN pstderr \cup {"[WARN] Invalid --period value"}
                          ELSE pstderr
    /\ ppc' = "parsed"
    /\ UNCHANGED <<S, excl, cap_top1, cap_top3, eur_total, min_amount, reconcile,
                   w, amounts, policies, rollover, rounds>>
    /\ UNCHANGED <<period, receipts, total_receipts, outputs, pexits>>
    /\ UNCHANGED chainVars
    /\ UNCHANGED bundleVars
    /\ UNCHANGED toolVars

\* "Aggregate per-provider shares in the selected period": the whole loop, or
\* the part of it before an uncaught exception ends the run
Aggregate ==
    /\ ppc = "parsed"
    /\ LET r == Aggregated(receipts, ym)
       IN  IF r.raised
           THEN /\ ppc' = "crashed"
                /\ pexits' = <<1>>
                /\ pstderr' = pstderr \cup {"Traceback"}
                /\ UNCHANGED <<S, total_receipts, policies>>
           ELSE /\ ppc' = "aggregated"
                /\ S' = r.S
                /\ total_receipts' = r.total_receipts
                /\ policies' = [k \in DOMAIN r.S |-> <<>>]
                /\ UNCHANGED <<pexits, pstderr>>
    /\ UNCHANGED <<excl, cap_top1, cap_top3, eur_total, min_amount, reconcile,
                   w, amounts, rollover, rounds>>
    /\ UNCHANGED <<period, receipts, ym, outputs>>
    /\ UNCHANGED chainVars
    /\ UNCHANGED bundleVars
    /\ UNCHANGED toolVars

ReceiptsNext ==
    \/ ParsePeriod
    \/ Aggregate
    \/ EmptyOutputs
    \/ Normalize

SpecReceipts == ReceiptsInit /\ [][ReceiptsNext]_vars

----------------------------------------------------------------------------
(* SpecOrder: main() from its arguments to the rounded amounts, with the   *)
(* dict order of S taken from the input: S is a defaultdict, so a provider *)
(* enters it at the first accepted row that names it, and every max() and  *)
(* sorted() of the later steps breaks its ties by that order.              *)

\* the provider ids of entries that are not yet keys of S, in entry order
RECURSIVE NewKeys(_, _, _)
NewKeys(entries, seen, i) ==
    IF i > Len(entries) THEN <<>>
    ELSE IF entries[i].pid \in seen THEN NewKeys(entries, seen, i + 1)
    ELSE <<entries[i].pid>> \o NewKeys(entries, seen \cup {entries[i].pid}, i + 1)

\* the keys of S in insertion order after the aggregation loop
RECURSIVE InsertionOrder(_, _, _, _, _)
InsertionOrder(lines, p, i, st, order) ==
    IF i > Len(lines) \/ st.raised THEN order
    ELSE LET nx == AggLine(st, lines[i], p)
             added == IF nx.total_receipts > st.total_receipts
                      THEN NewKeys(SelectSeq(lines[i].top_k, LAMBDA a : a.share >= 0),
                                   DOMAIN st.S, 1)
                      ELSE <<>>
         IN  InsertionOrder(lines, p, i + 1, nx, order \o added)

IndexIn(order, pid) == CHOOSE i \in 1..Len(order) : order[i] = pid

\* The operators of the payout steps read the dict order as ProvOrder: the
\* k-th key of the dict is handed to them as ProvOrder[k], and their result
\* is read back under the provider's own id.
BySlot(d, order) ==
    [s \in {ProvOrder[IndexIn(order, pid)] : pid \in DOMAIN d} |-> d[order[Pos(s)]]]

ByProvider(d, order) ==
    [pid \in {order[Pos(s)] : s \in DOMAIN d} |-> d[ProvOrder[IndexIn(order, pid)]]]

\* main() on an input file, without --exclude, --cap-top3 and --min-amount:
\* aggregation, normalize_weights, apply_caps, round_amounts
RunOn(lines, p, total, c1) ==
    LET agg   == Aggregated(lines, p)
        order == InsertionOrder(lines, p, 1, AggStart, <<>>)
        w0    == BySlot(normalize_weights(agg.S), order)
        pol0  == [k \in DOMAIN w0 |-> <<>>]
        r     == IF c1 # NoCap THEN apply_caps(w0, c1, NoCap, pol0)
                 ELSE [w |-> w0, pol |-> pol0, rounds |-> 0]
    IN  [w        |-> ByProvider(r.w, order),
         policies |-> ByProvider(r.pol, order),
         rounds   |-> r.rounds,
         amounts  |-> ByProvider(round_amounts(r.w, total), order)]

\* "Caps" and "Round amounts" of main(), on the weights of this input
CapAndRound ==
    /\ ppc = "normalized"
    /\ \E total \in Budgets, c1 \in Cap1Values :
          LET r == RunOn(receipts, ym, total, c1)
          IN  /\ eur_total' = total
              /\ cap_top1' = c1
              /\ w' = r.w
              /\ policies' = r.policies
              /\ rounds' = r.rounds
              /\ amounts' = r.amounts
    /\ ppc' = "rounded"
    /\ UNCHANGED <<S, excl, cap_top3, min_amount, reconcile, rollover>>
    /\ UNCHANGED receiptVars
    /\ UNCHANGED outVars
    /\ UNCHANGED chainVars
    /\ UNCHANGED bundleVars
    /\ UNCHANGED toolVars

OrderNext ==
    \/ ParsePeriod
    \/ Aggregate
    \/ EmptyOutputs
    \/ Normalize
    \/ CapAndRound

SpecOrder == ReceiptsInit /\ [][OrderNext]_vars

----------------------------------------------------------------------------
(* crovia/run.py, crovia/cli.py (cmd_run): the orchestrators that make a   *)
(* CRC-1 bundle directory, and crovia/verify.py: the bundle verifier.      *)
(*                                                                         *)
(* An artifact path of the manifest is one of:                             *)
(*   "name"      the file name the orchestrator gave the artifact          *)
(*   "blank"     an empty or all-blank string                              *)
(*   "nonstring" a JSON value that is not a string                         *)
(*   "dotdot"    a path leaving the directory through ".." segments        *)
(*   "absolute"  an absolute path outside the directory                    *)
(*   "symlink"   a name inside the directory, a link to a file outside it  *)

MANIFEST_SCHEMA == "crovia.manifest.v1"
CONTRACT == "CRC-1"

required == <<"receipts", "validate_report", "hashchain", "trust_bundle">>

OutsidePaths == {"dotdot", "absolute", "symlink"}
NotAPath == {"blank", "nonstring"}
TamperedPaths == NotAPath \cup OutsidePaths

WriterDefaultChunk == 10000      \* hashchain_writer.py --chunk default
VerifierDefaultChunk == 10000    \* verify_hashchain.py --chunk default

MaxBundleEdits == 2              \* changes made to a bundle before verifying

BundleSources == {<<>>, <<"a">>, <<"a", Blank, "b">>}

ArtifactsOf(keys) == [i \in 1..Len(keys) |-> [key |-> keys[i], path |-> "name"]]

\* a run.py that leaves the trust bundle out of the manifest
RunArtifacts_NoTrustBundle == <<"receipts", "validate_report", "hashchain">>

\* manifest_data["artifacts"] of run.py, in order
RunArtifacts == <<"receipts", "validate_report", "hashchain", "trust_bundle">>

\* "artifacts" of the manifest cmd_run writes, in order
CliArtifacts == <<"receipts", "validate_report", "payouts_ndjson", "payouts_csv",
                  "trust_bundle", "hashchain">>

OrchArtifacts(o) == IF o = "run" THEN RunArtifacts ELSE CliArtifacts

\* the files the orchestrator o leaves in the directory when it completes
OrchFiles(o) ==
    IF o = "run" THEN {"receipts", "validate_report", "hashchain", "trust_bundle"}
    ELSE {"receipts", "validate_report", "payouts_ndjson", "payouts_csv",
          "trust_bundle", "hashchain"}

Keys(artifacts) == {artifacts[i].key : i \in 1..Len(artifacts)}

\* artifacts[k] of the parsed dict
PathOf(artifacts, k) ==
    artifacts[CHOOSE i \in 1..Len(artifacts) : artifacts[i].key = k].path

\* _fail(msg): the line printed, and the check it names
Fail(check) == [tag |-> "[FAIL]", text |-> check]
\* _ok(msg) and the final print
Ok(text) == [tag |-> "[OK]", text |-> text]

\* a schema test that accepts any manifest
SchemaOk_Any(m) == TRUE

\* manifest.get("schema") == "crovia.manifest.v1"
SchemaOk(m) == m.schema = MANIFEST_SCHEMA

\* a path check without the traversal guard
PathCheck_NoGuard(e, present) ==
    IF e.path \in NotAPath THEN "must be a non-empty string"
    ELSE IF e.path \in OutsidePaths THEN "ok"
    ELSE IF e.key \notin present THEN "Missing artifact file"
    ELSE "ok"

\* the body of "for k, rel in artifacts.items()": the check that fails for the
\* entry e, or "ok"
PathCheck(e, present) ==
    IF e.path \in NotAPath THEN "must be a non-empty string"
    ELSE IF e.path \in OutsidePaths THEN "path traversal rejected"
    ELSE IF e.key \notin present THEN "Missing artifact file"
    ELSE "ok"

\* the loop: the failure of the first entry that fails, or "ok"
RECURSIVE PathsLoop(_, _, _)
PathsLoop(artifacts, present, i) ==
    IF i > Len(artifacts) THEN "ok"
    ELSE IF PathCheck(artifacts[i], present) # "ok"
         THEN PathCheck(artifacts[i], present)
         ELSE PathsLoop(artifacts, present, i + 1)

----------------------------------------------------------------------------
(* SpecBundle: an orchestrator makes a bundle directory (or fails on the   *)
(* way), the directory is changed or not, then the bundle verifier runs,   *)
(* one check at a time                                                     *)

BundleInit ==
    /\ source \in BundleSources
    /\ written = source
    /\ chunk = WriterDefaultChunk
    /\ chain = <<>>
    /\ edits = 0
    /\ cpc = "idle"
    /\ exits = <<>>
    /\ stderr = {}
    /\ files = {}
    /\ opened = {}
    /\ wexits = <<>>
    /\ PayoutIdle
    /\ manifest = NoManifest
    /\ bfiles = {}
    /\ tb_json = FALSE
    /\ orch = "none"
    /\ bpc = "none"
    /\ bout = <<>>
    /\ bexits = <<>>
    /\ breads = {}
    /\ hc_runs = 0
    /\ ToolsIdle

BundleFrame ==
    /\ UNCHANGED <<written, chunk, cpc, stderr, files, opened, wexits>>
    /\ UNCHANGED payoutVars
    /\ UNCHANGED toolVars

\* crovia-run / crovia run: the receipts are copied, validated, chained with
\* the writer's default --chunk, the trust bundle and the manifest are
\* written.  Every step is a subprocess.run(..., check=True): when
\* validate.py (or the payout run) exits non-zero the orchestrator stops with
\* the files made so far and no manifest.
Orchestrate ==
    /\ bpc = "none"
    /\ \E o \in {"run", "cli"}, completes \in BOOLEAN :
          IF completes
          THEN /\ orch' = o
               /\ chain' = WriterRun(TRUE, source, WriterDefaultChunk).out
               /\ bfiles' = OrchFiles(o)
               /\ tb_json' = TRUE
               /\ manifest' = [file |-> "object", schema |-> MANIFEST_SCHEMA,
                               contract |-> CONTRACT, artifacts_is_dict |-> TRUE,
                               artifacts |-> ArtifactsOf(OrchArtifacts(o))]
          ELSE /\ orch' = "failed"
               /\ bfiles' = {"receipts", "validate_report"}
               /\ UNCHANGED <<chain, tb_json, manifest>>
    /\ bpc' = "bundle"
    /\ UNCHANGED <<source, edits, exits, bout, bexits, breads, hc_runs>>
    /\ BundleFrame

CanChange == bpc = "bundle" /\ edits < MaxBundleEdits

Changed ==
    /\ edits' = edits + 1
    /\ UNCHANGED <<orch, bpc, bout, bexits, breads, hc_runs, exits>>
    /\ BundleFrame

\* MANIFEST.json is removed, or replaced by text that is not JSON, or by JSON
\* that is not an object
ReplaceManifest ==
    /\ CanChange
    /\ manifest.file = "object"
    /\ \E f \in {"missing", "invalid", "array"} : manifest' = [manifest EXCEPT !.file = f]
    /\ UNCHANGED <<source, chain, bfiles, tb_json>>
    /\ Changed

\* a field of the manifest is given another value
ChangeField ==
    /\ CanChange
    /\ manifest.file = "object"
    /\ \/ manifest' = [manifest EXCEPT !.schema = "other"]
       \/ manifest' = [manifest EXCEPT !.contract = "other"]
       \/ manifest' = [manifest EXCEPT !.artifacts_is_dict = FALSE]
    /\ manifest' # manifest
    /\ UNCHANGED <<source, chain, bfiles, tb_json>>
    /\ Changed

\* an artifact entry is removed from the manifest
RemoveEntry ==
    /\ CanChange
    /\ \E i \in 1..Len(manifest.artifacts) :
          manifest' = [manifest EXCEPT !.artifacts =
                          SubSeq(@, 1, i - 1) \o SubSeq(@, i + 1, Len(@))]
    /\ UNCHANGED <<source, chain, bfiles, tb_json>>
    /\ Changed

\* the path of an artifact entry is replaced
ChangePath ==
    /\ CanChange
    /\ \E i \in 1..Len(manifest.artifacts), p \in TamperedPaths :
          /\ manifest.artifacts[i].path = "name"
          /\ manifest' = [manifest EXCEPT !.artifacts[i].path = p]
    /\ UNCHANGED <<source, chain, bfiles, tb_json>>
    /\ Changed

\* an entry that CRC-1 does not require is added to the manifest
AddEntry ==
    /\ CanChange
    /\ manifest.file = "object"
    /\ "extra" \notin Keys(manifest.artifacts)
    /\ \E p \in OutsidePaths \cup {"name"} :
          manifest' = [manifest EXCEPT !.artifacts =
                          Append(@, [key |-> "extra", path |-> p])]
    /\ UNCHANGED <<source, chain, bfiles, tb_json>>
    /\ Changed

\* an artifact file is removed from the directory
DeleteFile ==
    /\ CanChange
    /\ \E k \in bfiles : bfiles' = bfiles \ {k}
    /\ UNCHANGED <<source, chain, manifest, tb_json>>
    /\ Changed

\* trust_bundle.json is replaced by text that is not JSON
BreakTrustBundle ==
    /\ CanChange
    /\ tb_json
    /\ tb_json' = FALSE
    /\ UNCHANGED <<source, chain, manifest, bfiles>>
    /\ Changed

\* a line is appended to receipts.ndjson
ChangeReceipts ==
    /\ CanChange
    /\ "receipts" \in bfiles
    /\ source' = Append(source, "b")
    /\ UNCHANGED <<chain, manifest, bfiles, tb_json>>
    /\ Changed

\* one digest of hashchain.txt gets a character flipped
ChangeHashchain ==
    /\ CanChange
    /\ "hashchain" \in bfiles
    /\ \E i \in 1..Len(chain) : chain' = [chain EXCEPT ![i].dg.flip = 1]
    /\ UNCHANGED <<source, manifest, bfiles, tb_json>>
    /\ Changed

\* what a step of the verifier leaves alone
VerifierFrame ==
    /\ UNCHANGED <<source, chain, edits, manifest, bfiles, tb_json, orch>>
    /\ BundleFrame

\* _fail(msg)
FailWith(check) ==
    /\ bout' = Append(bout, Fail(check))
    /\ bexits' = <<1>>
    /\ bpc' = "failed"

Pass(next) ==
    /\ bpc' = next
    /\ UNCHANGED <<bout, bexits>>

\* "if not crc_dir.exists() or not crc_dir.is_dir()"
CheckDirectory ==
    /\ bpc \in {"none", "bundle"}
    /\ IF bpc = "none" THEN FailWith("Provided path is not a directory")
       ELSE Pass("dir_ok")
    /\ UNCHANGED <<breads, hc_runs, exits>>
    /\ VerifierFrame

\* "if not manifest_path.exists()"
CheckManifestExists ==
    /\ bpc = "dir_ok"
    /\ IF manifest.file = "missing" THEN FailWith("MANIFEST.json missing")
       ELSE Pass("manifest_found")
    /\ UNCHANGED <<breads, hc_runs, exits>>
    /\ VerifierFrame

\* "manifest = json.loads(manifest_path.read_text(...))"
ParseManifest ==
    /\ bpc = "manifest_found"
    /\ breads' = breads \cup {[key |-> "MANIFEST", path |-> "name"]}
    /\ IF manifest.file = "invalid" THEN FailWith("MANIFEST.json invalid JSON")
       ELSE Pass("manifest_parsed")
    /\ UNCHANGED <<hc_runs, exits>>
    /\ VerifierFrame

\* "if manifest.get("schema") != ...": on a parsed value that is not a dict
\* .get raises AttributeError, which nothing catches: traceback, exit code 1
CheckSchema ==
    /\ bpc = "manifest_parsed"
    /\ IF manifest.file # "object"
       THEN /\ bpc' = "crashed"
            /\ bexits' = <<1>>
            /\ UNCHANGED bout
       ELSE IF ~SchemaOk(manifest)
            THEN FailWith("MANIFEST schema must be crovia.manifest.v1")
            ELSE Pass("schema_ok")
    /\ UNCHANGED <<breads, hc_runs, exits>>
    /\ VerifierFrame

\* "if manifest.get("contract") != "CRC-1""
CheckContract ==
    /\ bpc = "schema_ok"
    /\ IF manifest.contract # CONTRACT THEN FailWith("MANIFEST contract must be CRC-1")
       ELSE Pass("contract_ok")
    /\ UNCHANGED <<breads, hc_runs, exits>>
    /\ VerifierFrame

\* "if not isinstance(artifacts, dict)"
CheckArtifactsObject ==
    /\ bpc = "contract_ok"
    /\ IF ~manifest.artifacts_is_dict THEN FailWith("MANIFEST artifacts must be an object")
       ELSE Pass("artifacts_ok")
    /\ UNCHANGED <<breads, hc_runs, exits>>
    /\ VerifierFrame

\* "for k in required: if k not in artifacts"
CheckRequiredKeys ==
    /\ bpc = "artifacts_ok"
    /\ IF \E i \in 1..Len(required) : required[i] \notin Keys(manifest.artifacts)
       THEN FailWith("MANIFEST missing artifacts.k")
       ELSE Pass("keys_ok")
    /\ UNCHANGED <<breads, hc_runs, exits>>
    /\ VerifierFrame

\* "existence checks + path traversal guard", the whole loop
CheckPaths ==
    /\ bpc = "keys_ok"
    /\ LET r == PathsLoop(manifest.artifacts, bfiles, 1)
       IN  IF r # "ok" THEN FailWith(r)
           ELSE /\ bout' = Append(bout, Ok("All artifacts present"))
                /\ bpc' = "paths_ok"
                /\ UNCHANGED bexits
    /\ UNCHANGED <<breads, hc_runs, exits>>
    /\ VerifierFrame

\* "json.loads(safe_paths["trust_bundle"].read_text(...))"
CheckTrustBundle ==
    /\ bpc = "paths_ok"
    /\ breads' = breads \cup {[key |-> "trust_bundle",
                               path |-> PathOf(manifest.artifacts, "trust_bundle")]}
    /\ IF PathOf(manifest.artifacts, "trust_bundle") = "name" /\ tb_json
       THEN /\ bout' = Append(bout, Ok("trust_bundle JSON valid"))
            /\ bpc' = "trust_ok"
            /\ UNCHANGED bexits
       ELSE FailWith("trust_bundle invalid JSON")
    /\ UNCHANGED <<hc_runs, exits>>
    /\ VerifierFrame

\* "Verify hashchain using the REAL verifier present in this repo":
\* verify_hashchain.py --source receipts --chain hashchain, no --chunk given
VerifyHashchain ==
    /\ bpc = "trust_ok"
    /\ hc_runs' = hc_runs + 1
    /\ breads' = breads \cup
          {[key |-> k, path |-> PathOf(manifest.artifacts, k)] : k \in {"receipts", "hashchain"}}
    /\ LET r == VerifierRun(TRUE, source, chain, VerifierDefaultChunk)
       IN  /\ exits' = Append(exits, r.code)
           /\ IF r.code # 0 THEN FailWith("Hashchain verification failed")
              ELSE /\ bout' = bout \o <<Ok("Hashchain verified"), Ok("CRC-1 VERIFIED")>>
                   /\ bexits' = <<0>>
                   /\ bpc' = "verified"
    /\ VerifierFrame

BundleNext ==
    \/ Orchestrate
    \/ ReplaceManifest
    \/ ChangeField
    \/ RemoveEntry
    \/ ChangePath
    \/ AddEntry
    \/ DeleteFile
    \/ BreakTrustBundle
    \/ ChangeReceipts
    \/ ChangeHashchain
    \/ CheckDirectory
    \/ CheckManifestExists
    \/ ParseManifest
    \/ CheckSchema
    \/ CheckContract
    \/ CheckArtifactsObject
    \/ CheckRequiredKeys
    \/ CheckPaths
    \/ CheckTrustBundle
    \/ VerifyHashchain

SpecBundle == BundleInit /\ [][BundleNext]_vars

----------------------------------------------------------------------------
(* iter_ndjson, the receipt reader of payouts_from_royalties.py and of      *)
(* validate.py.  A physical line is the sequence of its pieces: stretches   *)
(* of whitespace (Sp) and at most one stretch of other text.                *)

MaxNdLines == 3      \* longest NDJSON file, in physical lines

Sp == " "
BadJson == "{bad"                   \* text json.loads rejects
ArrayJson == "[1]"                  \* JSON, but not an object
ObjectJson == "{\"schema\": \"royalty_receipt.v1\"}"

ReaderTexts == {BadJson, ArrayJson, ObjectJson}

\* the lines a file is made of: empty, whitespace only, a text, a text with
\* whitespace around it
LinesOf(texts) ==
    {<<>>, <<Sp>>} \cup {<<x>> : x \in texts} \cup {<<Sp, x, Sp>> : x \in texts}

\* line.strip()
RECURSIVE strip(_)
strip(line) ==
    IF line = <<>> THEN line
    ELSE IF Head(line) = Sp THEN strip(Tail(line))
    ELSE IF line[Len(line)] = Sp THEN strip(SubSeq(line, 1, Len(line) - 1))
    ELSE line

\* the names of the two keys of a parse-error item
ParseErrorKeys(mod) ==
    IF mod = "payouts" THEN {"__parse_error__", "__raw__"} ELSE {"_parse_error", "_raw"}

\* what json.loads(s) returns for the texts above, raised = TRUE when it raises
json_loads(s) ==
    IF Len(s) # 1 \/ s[1] = BadJson THEN [raised |-> TRUE, type |-> "", text |-> s]
    ELSE IF s[1] = ArrayJson THEN [raised |-> FALSE, type |-> "list", text |-> s]
    ELSE [raised |-> FALSE, type |-> "dict", text |-> s]

\* the record yielded for the stripped line s: the parsed value, or the
\* dict {parse error, raw text}
Yielded(mod, s) ==
    LET v == json_loads(s)
    IN  IF v.raised
        THEN [type |-> "dict", keys |-> ParseErrorKeys(mod), raw |-> s]
        ELSE [type |-> v.type, keys |-> {}, raw |-> s]

\* enumerate(f, 1): the number of the k-th physical line
LineNumber(lines, k) == k

\* the for loop up to its next yield, or to the end of the file: the lines
\* taken, and the item yielded if any
RECURSIVE iter_ndjson(_, _, _)
iter_ndjson(mod, lines, taken) ==
    IF taken >= Len(lines) THEN [taken |-> taken, items |-> <<>>]
    ELSE LET s == strip(lines[taken + 1])
         IN  IF s = <<>> THEN iter_ndjson(mod, lines, taken + 1)
             ELSE [taken |-> taken + 1,
                   items |-> <<[lineno |-> LineNumber(lines, taken + 1),
                                rec |-> Yielded(mod, s)]>>]

ReaderInit ==
    /\ reader \in {"payouts", "validate"}
    /\ \E n \in 0..MaxNdLines : nd_lines \in [1..n -> LinesOf(ReaderTexts)]
    /\ nd_lineno = 0
    /\ nd_items = <<>>
    /\ ValidateIdle
    /\ TbIdle
    /\ ChainIdle
    /\ PayoutIdle
    /\ BundleIdle

\* the consumer asks the generator for its next item
NextItem ==
    /\ reader # "none"
    /\ nd_lineno < Len(nd_lines)
    /\ LET r == iter_ndjson(reader, nd_lines, nd_lineno)
       IN  /\ nd_lineno' = r.taken
           /\ nd_items' = nd_items \o r.items
    /\ UNCHANGED <<reader, nd_lines>>
    /\ UNCHANGED <<validateVars, tbVars>>
    /\ UNCHANGED <<chainVars, payoutVars, bundleVars>>

ReaderNext == NextItem

SpecReader == ReaderInit /\ [][ReaderNext]_vars

----------------------------------------------------------------------------
(* validate/validate.py: the receipt validator. main() reads the input     *)
(* with iter_ndjson, puts every item in a class and counts it, then grades *)
(* the file. The schema registry (core/schema.py) is used when it can be   *)
(* imported; its _VALIDATORS know royalty_receipt.v1 and payouts.v1 but    *)
(* not data_receipt.v1.                                                     *)

MaxValLines == 2     \* longest validated file, in physical lines

DATA_SCHEMA == "data_receipt.v1"
PAYOUTS_SCHEMA_ID == "payouts.v1"
SHARE_SUM_TOL == 2   \* 0.02, in hundredths of a share

\* a JSON object: its schema, whether it passes the JSON schema of the
\* registry for its schema id, and the fields the business rules read
\* (shares in hundredths)
Royalty(conforms, output_id, shares) ==
    [schema |-> ROYALTY_SCHEMA, conforms |-> conforms, output_id |-> output_id,
     top_k |-> shares, provider_id |-> FALSE, content_id |-> FALSE, timestamp |-> FALSE]

Data(provider_id, content_id, timestamp) ==
    [schema |-> DATA_SCHEMA, conforms |-> FALSE, output_id |-> FALSE, top_k |-> <<>>,
     provider_id |-> provider_id, content_id |-> content_id, timestamp |-> timestamp]

Other(schema, conforms) ==
    [schema |-> schema, conforms |-> conforms, output_id |-> FALSE, top_k |-> <<>>,
     provider_id |-> FALSE, content_id |-> FALSE, timestamp |-> FALSE]

RoyaltyGood == "{royalty_receipt.v1, all required fields, shares 0.6 0.4}"
RoyaltySumOff == "{royalty_receipt.v1, all required fields, shares 0.5}"
RoyaltyBare == "{royalty_receipt.v1, output_id, top_k with share 1.0}"
RoyaltyNoTopK == "{royalty_receipt.v1}"
DataGood == "{data_receipt.v1, provider_id, content_id, timestamp}"
DataNoProvider == "{data_receipt.v1, content_id, timestamp}"
PayoutsRecord == "{payouts.v1, all required fields}"
NoSchema == "{}"

ValidatorTexts ==
    {BadJson, ArrayJson, RoyaltyGood, RoyaltySumOff, RoyaltyBare, RoyaltyNoTopK,
     DataGood, DataNoProvider, PayoutsRecord, NoSchema}

\* the dict json.loads returns for a text
ObjectOf(text) ==
    CASE text = RoyaltyGood    -> Royalty(TRUE, TRUE, <<60, 40>>)
      [] text = RoyaltySumOff  -> Royalty(TRUE, TRUE, <<50>>)
      [] text = RoyaltyBare    -> Royalty(FALSE, TRUE, <<100>>)
      [] text = RoyaltyNoTopK  -> Royalty(FALSE, FALSE, <<>>)
      [] text = DataGood       -> Data(TRUE, TRUE, TRUE)
      [] text = DataNoProvider -> Data(FALSE, TRUE, TRUE)
      [] text = PayoutsRecord  -> Other(PAYOUTS_SCHEMA_ID, TRUE)
      [] OTHER                 -> Other("", FALSE)

\* schema.validate_record raises: the schema id is not a key of _VALIDATORS,
\* or the JSON schema rejects the record
InRegistry(schema) == schema \in {ROYALTY_SCHEMA, PAYOUTS_SCHEMA_ID}

\* validate_record(rec) of validate.py raises: a no-op without the registry
validate_record_raises(reg, obj) ==
    reg /\ (~InRegistry(obj.schema) \/ ~obj.conforms)

\* is_schema_compatible(rec, expected): with the registry, the call with two
\* arguments raises TypeError and the one-argument form is used
is_schema_compatible(reg, obj, expected) ==
    IF obj.schema = "" THEN FALSE
    ELSE IF ~reg THEN obj.schema = expected
    ELSE InRegistry(obj.schema) /\ obj.schema = expected

Levels(cond, level) == IF cond THEN <<level>> ELSE <<>>

RECURSIVE SumSeq(_)
SumSeq(q) == IF q = <<>> THEN 0 ELSE Head(q) + SumSeq(Tail(q))

\* the levels of the issues validate_royalty_business_rules returns
validate_royalty_business_rules(obj) ==
    Levels(~obj.output_id, "ERROR")
    \o (IF obj.top_k = <<>> THEN <<"ERROR">>
        ELSE Levels(\E i \in 1..Len(obj.top_k) : obj.top_k[i] < 0, "ERROR")
             \o Levels(Abs(SumSeq(obj.top_k) - 100) > SHARE_SUM_TOL, "WARN"))

\* the levels of the issues validate_data_receipt_business_rules returns
validate_data_receipt_business_rules(obj) ==
    Levels(~obj.provider_id, "ERROR") \o Levels(~obj.content_id, "ERROR")
    \o Levels(~obj.timestamp, "ERROR")

Count(c, field) == [c EXCEPT ![field] = @ + 1]

\* the end of the loop body: the line is put in one class by its issues
ByIssues(c, issues) ==
    IF \E i \in 1..Len(issues) : issues[i] = "ERROR" THEN Count(c, "error_lines")
    ELSE IF \E i \in 1..Len(issues) : issues[i] = "WARN" THEN Count(c, "warn_lines")
    ELSE Count(c, "valid")

\* the body of "for lineno, rec in iter_ndjson(args.input)" on one item
ScanItem(c0, rec, reg) ==
    LET c == Count(c0, "total")
    IN  IF rec.type = "dict" /\ "_parse_error" \in rec.keys
        THEN Count(c, "error_lines")                       \* JSON_DECODE_ERROR
        ELSE IF rec.type # "dict"
        THEN Count(c, "error_lines")                       \* RECORD_NOT_OBJECT
        ELSE LET obj == ObjectOf(rec.raw[1])
                 raised == validate_record_raises(reg, obj)
                 \* the except branch: a data receipt is counted as a warning
                 \* and the body goes on; anything else is an error and the
                 \* loop continues with the next item
                 c1 == IF raised /\ obj.schema = DATA_SCHEMA
                       THEN Count(c, "warn_lines") ELSE c
             IN  IF raised /\ obj.schema # DATA_SCHEMA
                 THEN Count(c, "error_lines")              \* SCHEMA_VALIDATE_ERROR
                 ELSE IF obj.schema = DATA_SCHEMA
                 THEN ByIssues(c1, validate_data_receipt_business_rules(obj))
                 ELSE IF obj.schema = ROYALTY_SCHEMA
                         \/ is_schema_compatible(reg, obj, ROYALTY_SCHEMA)
                 THEN ByIssues(c1, validate_royalty_business_rules(obj))
                 ELSE Count(c1, "error_lines")             \* UNKNOWN_SCHEMA

\* err_rate <= 0.01 and err_rate <= 0.05 on errors / total
classify_health(total, errors, warns) ==
    IF total = 0 THEN "D"
    ELSE IF errors = 0 /\ warns = 0 THEN "A"
    ELSE IF errors * 100 <= total THEN "B"
    ELSE IF errors * 20 <= total THEN "C"
    ELSE "D"

ExitCode(health) == IF health \in {"A", "B"} THEN 0 ELSE IF health = "C" THEN 2 ELSE 3

ValidateInit ==
    /\ reader = "validate"
    /\ \E n \in 0..MaxValLines : nd_lines \in [1..n -> LinesOf(ValidatorTexts)]
    /\ nd_lineno = 0
    /\ nd_items = <<>>
    /\ registry \in BOOLEAN
    /\ counts = NoCounts
    /\ vpc = "scan"
    /\ vout = <<>>
    /\ TbIdle
    /\ ChainIdle
    /\ PayoutIdle
    /\ BundleIdle

\* one turn of the for loop: the generator yields its next item and the
\* body counts it
ScanLine ==
    /\ vpc = "scan"
    /\ LET r == iter_ndjson("validate", nd_lines, nd_lineno)
       IN  /\ r.items # <<>>
           /\ nd_lineno' = r.taken
           /\ counts' = ScanItem(counts, r.items[1].rec, registry)
    /\ UNCHANGED <<reader, nd_lines, nd_items, registry, vpc, vout>>
    /\ UNCHANGED tbVars
    /\ UNCHANGED <<chainVars, payoutVars, bundleVars>>

\* the generator is exhausted: the grade, the report line and the exit code
Grade ==
    /\ vpc = "scan"
    /\ LET r == iter_ndjson("validate", nd_lines, nd_lineno)
           health == classify_health(counts.total, counts.error_lines, counts.warn_lines)
       IN  /\ r.items = <<>>
           /\ nd_lineno' = r.taken
           /\ vout' = <<[health |-> health, code |-> ExitCode(health)]>>
    /\ vpc' = "done"
    /\ UNCHANGED <<reader, nd_lines, nd_items, registry, counts>>
    /\ UNCHANGED tbVars
    /\ UNCHANGED <<chainVars, payoutVars, bundleVars>>

ValidateNext ==
    \/ ScanLine
    \/ Grade

SpecValidate == ValidateInit /\ [][ValidateNext]_vars

----------------------------------------------------------------------------
(* trust_bundle_validator.py: validate_bundle.  An entry of                 *)
(* bundle["artifacts"] is described by what the loop asks of it: whether    *)
(* it has a path, whether the file is found (next to the bundle or under    *)
(* base_dir), and whether the declared bytes and sha256 are absent          *)
(* ("none"), equal to the file's ("match") or not ("mismatch").             *)

MaxArtifacts == 2    \* most entries of bundle["artifacts"]

Declared == {"none", "match", "mismatch"}

Metas ==
    {[path |-> FALSE, found |-> FALSE, bytes |-> "none", sha256 |-> "none"],
     [path |-> TRUE, found |-> FALSE, bytes |-> "match", sha256 |-> "match"]}
    \cup {[path |-> TRUE, found |-> TRUE, bytes |-> b, sha256 |-> s] :
             b \in Declared, s \in Declared}

\* the body of "for name, meta in artifacts.items()": what it adds to
\* errors, and what it prints
CheckArtifact(meta) ==
    IF ~meta.path THEN [errors |-> 0, out |-> <<"[WARN] missing 'path'">>]
    ELSE IF ~meta.found THEN [errors |-> 1, out |-> <<"[ERROR] file not found">>]
    ELSE LET size_bad == meta.bytes = "mismatch"
             hash_bad == meta.sha256 = "mismatch"
             status == IF hash_bad THEN "HASH_MISMATCH"
                       ELSE IF size_bad THEN "SIZE_MISMATCH"
                       ELSE "OK"
         IN  [errors |-> (IF size_bad THEN 1 ELSE 0) + (IF hash_bad THEN 1 ELSE 0),
              out |-> <<status>>]

\* a line of stdout that is about no artifact in particular
Says(text) == [artifact |-> 0, line |-> text]

TbInit ==
    /\ \E n \in 0..MaxArtifacts : tb_arts \in [1..n -> Metas]
    /\ tb_pos = 0
    /\ tb_errors = 0
    /\ tb_out = <<>>
    /\ tb_exits = <<>>
    /\ ReaderIdle
    /\ ValidateIdle
    /\ ChainIdle
    /\ PayoutIdle
    /\ BundleIdle

TbFrame ==
    /\ UNCHANGED <<readerVars, validateVars>>
    /\ UNCHANGED <<chainVars, payoutVars, bundleVars>>

\* validate_bundle up to the loop: an empty artifacts section ends it
LoadBundle ==
    /\ tb_out = <<>>
    /\ tb_exits = <<>>
    /\ IF tb_arts = <<>>
       THEN /\ tb_out' = <<Says("[*] Loading bundle"), Says("[ERROR] No 'artifacts' section")>>
            /\ tb_exits' = <<1>>
       ELSE /\ tb_out' = <<Says("[*] Loading bundle")>>
            /\ tb_exits' = tb_exits
    /\ UNCHANGED <<tb_arts, tb_pos, tb_errors>>
    /\ TbFrame

\* one round of the loop over the artifacts
VerifyArtifact ==
    /\ tb_out # <<>>
    /\ tb_exits = <<>>
    /\ tb_pos < Len(tb_arts)
    /\ LET r == CheckArtifact(tb_arts[tb_pos + 1])
       IN  /\ tb_errors' = tb_errors + r.errors
           /\ tb_out' = Append(tb_out, [artifact |-> tb_pos + 1, line |-> r.out[1]])
    /\ tb_pos' = tb_pos + 1
    /\ UNCHANGED <<tb_arts, tb_exits>>
    /\ TbFrame

\* after the loop
Result ==
    /\ tb_out # <<>>
    /\ tb_exits = <<>>
    /\ tb_pos = Len(tb_arts)
    /\ IF tb_errors # 0
       THEN /\ tb_out' = Append(tb_out, Says("[RESULT] Bundle NOT valid"))
            /\ tb_exits' = <<1>>
       ELSE /\ tb_out' = Append(tb_out, Says("[RESULT] Bundle OK"))
            /\ tb_exits' = <<0>>
    /\ UNCHANGED <<tb_arts, tb_pos, tb_errors>>
    /\ TbFrame

TbNext == LoadBundle \/ VerifyArtifact \/ Result

SpecTrustBundle == TbInit /\ [][TbNext]_vars

----------------------------------------------------------------------------
(* What the chain of a source is, stated independently of writer and       *)
(* verifier: block i (1-based) holds the non-blank lines (i-1)*N+1 .. i*N, *)
(* and its digest folds the previous block's digest before every line.     *)

NonBlank(lines) == SelectSeq(lines, LAMBDA s : s # Blank)

NumBlocks(lines, N) == (Len(NonBlank(lines)) + N - 1) \div N

RefBlock(lines, N, i) ==
    SubSeq(NonBlank(lines), (i - 1) * N + 1, Min(i * N, Len(NonBlank(lines))))

RECURSIVE RefDigest(_, _, _)
RefDigest(lines, N, i) ==
    LET prev == IF i = 1 THEN ZeroAnchor ELSE RefDigest(lines, N, i - 1).val
        blk == RefBlock(lines, N, i)
    IN  [val |-> [j \in 1..Len(blk) |-> <<prev, blk[j]>>], flip |-> 0, form |-> "hex64"]

RefChain(lines, N) ==
    [i \in 1..NumBlocks(lines, N) |->
        [blk |-> i - 1,
         upto |-> Min(i * N, Len(NonBlank(lines))),
         dg |-> RefDigest(lines, N, i)]]

Verified == cpc = "verified"
LastExit == exits[Len(exits)]

----------------------------------------------------------------------------
(* Claims on the allocation (SpecPayout) *)

\* C1 as stated: for every policy configuration (min_amount > 0 with
\* reconcile_after_min set or unset included) the final amounts sum to
\* eur_total exactly.
C1_ConservationAsStated ==
    ppc = "done" => Sum(amounts) = eur_total

\* the step main() takes from the rounded amounts to the final amounts
\* either zeroes no provider, or reconciles with some provider left to pay
MinStepConserving ==
    /\ ppc = "rounded"
    /\ ppc' = "done"
    /\ \/ BelowMin(amounts, min_amount') = {}
       \/ reconcile' /\ \E p \in DOMAIN amounts : amounts[p] >= min_amount'

\* C1 amended: the amounts sum to eur_total exactly after round_amounts, and
\* still do after the minimum-amount step whenever that step zeroes no
\* provider, or reconcile_after_min is set and at least one provider's rounded
\* amount is at or above min_amount.
C1_Conservation ==
    /\ [](ppc = "rounded" => Sum(amounts) = eur_total)
    /\ [][MinStepConserving => Sum(amounts') = eur_total']_vars

\* C1 witness: caps were applied, the minimum-amount step zeroed a provider
\* and reconciled, and the final amounts sum to the budget of 1.00.
C1_Witness ==
    /\ ppc = "done"
    /\ rounds > 0
    /\ reconcile
    /\ rollover # <<>>
    /\ \E p \in DOMAIN amounts : amounts[p] >= min_amount
    /\ eur_total = 100
    /\ Sum(amounts) = 100

\* the caps can be met at all: enough providers hold weight
CapsFeasible ==
    LET npos == Cardinality({p \in DOMAIN w : w[p] > 0})
    IN  /\ cap_top1 # NoCap => cap_top1 * npos >= SCALE
        /\ cap_top3 # NoCap => cap_top3 * npos >= 3 * SCALE

\* one thousandth: far above the claim's 1e-9 and above the rounding of the
\* fixed-point weights
CapTolerance == SCALE \div 1000

\* C2: after apply_caps no weight exceeds cap_top1 (+ tolerance) and the three
\* largest weights together do not exceed cap_top3 (+ tolerance); stated here
\* for the caps that can be met.
C2_CapsHold ==
    (ppc = "capped" /\ CapsFeasible) =>
        /\ cap_top1 # NoCap => \A p \in DOMAIN w : w[p] <= cap_top1 + CapTolerance
        /\ (cap_top3 # NoCap /\ Cardinality(DOMAIN w) >= 3)
              => SumOver(w, Top3(w)) <= cap_top3 + CapTolerance

\* C3: every excluded provider ends with weight 0 and amount 0 (the rounding
\* residual never goes to it), and is tagged "excluded".
C3_ExcludedGetNothing ==
    ppc \in {"rounded", "done"} =>
        \A p \in excl \cap DOMAIN S :
            /\ w[p] = 0
            /\ amounts[p] = 0
            /\ S[p] > 0 => HasTag(policies, p, "excluded")

\* the weights apply_caps is given: normalized, exclusions applied
WeightsBeforeCaps ==
    IF excl # {} THEN apply_exclusions(normalize_weights(S), excl)
    ELSE normalize_weights(S)

\* cap_top1 alone was given, and the loop changed the weights in its first
\* round only: the top provider exceeded the cap, and after the
\* redistribution nobody did
OnlyTopCapped ==
    /\ ppc \in {"capped", "rounded"}
    /\ cap_top1 # NoCap
    /\ cap_top3 = NoCap
    /\ rounds = 1
    /\ \E i \in DOMAIN S : i # MaxKey(WeightsBeforeCaps) /\ WeightsBeforeCaps[i] > 0

\* a / b rounded to the nearest integer
RDiv(a, b) == (2 * a + b) \div (2 * b)

\* cap_top1 for the top provider, w_i + excess * w_i / (1 - w_top) for the others
FormulaWeight(i) ==
    LET w0 == WeightsBeforeCaps
        top == MaxKey(w0)
    IN  IF i = top THEN cap_top1
        ELSE w0[i] + RDiv((w0[top] - cap_top1) * w0[i], SCALE - w0[top])

\* C19 as stated, the general rule read to the cent: when only the top
\* provider exceeds cap_top1 (and cap_top1 x budget is a whole number of
\* cents) the top provider receives cap_top1 x budget.
C19_TopReceivesCapAsStated ==
    (OnlyTopCapped /\ ppc = "rounded" /\ (cap_top1 * eur_total) % SCALE = 0) =>
        amounts[MaxKey(WeightsBeforeCaps)] * SCALE = cap_top1 * eur_total

\* the scenario of C19: weights 0.6 / 0.3 / 0.1, nobody excluded, budget 100.00
Scenario ==
    /\ ppc = "rounded"
    /\ S = ExampleShares
    /\ excl \cap DOMAIN S = {}
    /\ cap_top3 = NoCap
    /\ eur_total = 100 * 100

\* C19 amended: in the scenario the amounts are 60.00 / 30.00 / 10.00 without
\* caps and 50.00 / 37.50 / 12.50 (sum 100.00) with cap_top1 = 0.5.  In
\* general, when only the top provider exceeds cap_top1, the weights after
\* apply_caps are cap_top1 for the top provider and
\* w_i + excess * w_i / (1 - w_top) for every other one; every amount is its
\* weight times the budget rounded to the cent, but for the largest amount,
\* which also takes the rounding residual (less than a cent per provider).
C19_CapRedistribution ==
    /\ (Scenario /\ cap_top1 = NoCap)
          => amounts = ("A" :> 6000) @@ ("B" :> 3000) @@ ("C" :> 1000)
    /\ (Scenario /\ cap_top1 = SCALE \div 2)
          => /\ amounts = ("A" :> 5000) @@ ("B" :> 3750) @@ ("C" :> 1250)
             /\ Sum(amounts) = eur_total
    /\ OnlyTopCapped
          => \A i \in DOMAIN w : Abs(w[i] - FormulaWeight(i)) <= CapTolerance
    /\ (OnlyTopCapped /\ ppc = "rounded")
          => LET rounded == [p \in DOMAIN w |-> RoundBiased(w[p], eur_total)]
             IN  \A i \in DOMAIN w :
                    IF i = MaxKey(rounded)
                    THEN Abs(amounts[i] - rounded[i]) <= Cardinality(DOMAIN w)
                    ELSE amounts[i] = rounded[i]

\* C19 witness: the scenario with cap_top1 = 0.5: one round of the cap loop,
\* A tagged and paid 50.00.
C19_Witness ==
    /\ Scenario
    /\ cap_top1 = SCALE \div 2
    /\ rounds = 1
    /\ HasTag(policies, "A", "cap_top1")
    /\ amounts["A"] = 5000
    /\ amounts["B"] = 3750

\* the state of apply_caps after n rounds that each changed something and
\* were each followed by the renormalization
RECURSIVE AfterRounds(_)
AfterRounds(n) ==
    IF n = 0
    THEN [w |-> WeightsBeforeCaps, capped |-> {}, pol |-> Empty, changed |-> FALSE]
    ELSE LET r == CapRound(AfterRounds(n - 1), cap_top1, cap_top3)
         IN  [r EXCEPT !.w = normalize_weights(r.w)]

\* in round n + 1 neither the top-1 cap nor the top-3 cap triggers
Quiet(n) == ~CapRound(AfterRounds(n), cap_top1, cap_top3).changed

CapsGiven == cap_top1 # NoCap \/ cap_top3 # NoCap

\* C24: apply_caps ends after at most 10 rounds, and it leaves the loop at the
\* first round in which neither cap triggered a change: the rounds that
\* changed something are exactly those before the first quiet one (all ten
\* when there is none), and the weights returned are those the last of them
\* left.
C24_CapLoopBounded ==
    (ppc = "capped" /\ CapsGiven /\ DOMAIN w # {}) =>
        /\ rounds <= MaxCapRounds
        /\ \A n \in 0..(rounds - 1) : ~Quiet(n)
        /\ rounds < MaxCapRounds => Quiet(rounds)
        /\ w = AfterRounds(rounds).w

\* as many units of 1/SCALE as the divisions of a weight map can be off by
SumTolerance == Cardinality(DOMAIN w)

\* C25: for every cap configuration, caps of 0 and caps below 1/n included,
\* and every weight map summing to 1, the weights apply_caps returns are all
\* non-negative and sum to 1.
C25_CapsKeepWeight ==
    (ppc = "capped" /\ CapsGiven
       /\ Abs(Sum(WeightsBeforeCaps) - SCALE) <= SumTolerance) =>
        /\ \A p \in DOMAIN w : w[p] >= 0
        /\ Abs(Sum(w) - SCALE) <= SumTolerance

\* C25 without a cap of 0: the weights are non-negative and sum to 1
C25_PositiveCapsKeepWeight ==
    (ppc = "capped" /\ CapsGiven /\ cap_top1 # 0
       /\ Abs(Sum(WeightsBeforeCaps) - SCALE) <= SumTolerance) =>
        /\ \A p \in DOMAIN w : w[p] >= 0
        /\ Abs(Sum(w) - SCALE) <= SumTolerance

\* weight x budget rounded to 2 decimals, each provider on its own
IndependentlyRounded == [p \in DOMAIN w |-> RoundBiased(w[p], eur_total)]

\* C26: round_amounts changes at most one provider relative to independent
\* rounding: every provider but the one with the largest rounded amount (the
\* first in map order on ties) receives exactly its rounded amount, and that
\* one receives its rounded amount plus the whole residual
\* budget - sum(rounded).
C26_ResidualToLargest ==
    (ppc = "rounded" /\ DOMAIN w # {}) =>
        LET rounded == IndependentlyRounded
            largest == CHOOSE k \in DOMAIN rounded :
                          /\ \A j \in DOMAIN rounded : rounded[j] <= rounded[k]
                          /\ \A j \in DOMAIN rounded :
                                rounded[j] = rounded[k] => Pos(k) <= Pos(j)
        IN  /\ \A p \in DOMAIN w \ {largest} : amounts[p] = rounded[p]
            /\ amounts[largest] = rounded[largest] + (eur_total - Sum(rounded))
            /\ Cardinality({p \in DOMAIN w : amounts[p] # rounded[p]}) <= 1

\* C26 witness: two providers tie on the largest rounded amount, the residual
\* is not zero, and the first of them in map order took all of it.
C26_Witness ==
    /\ ppc = "rounded"
    /\ \E a, b \in DOMAIN w :
          /\ Pos(a) < Pos(b)
          /\ IndependentlyRounded[a] = IndependentlyRounded[b]
          /\ \A j \in DOMAIN w : IndependentlyRounded[j] <= IndependentlyRounded[a]
          /\ eur_total # Sum(IndependentlyRounded)
          /\ amounts[a] # IndependentlyRounded[a]
          /\ amounts[b] = IndependentlyRounded[b]

\* the amounts round_amounts gave, before the minimum-amount step
RoundedAmounts == round_amounts(w, eur_total)

InRollover(p) ==
    Cardinality({i \in 1..Len(rollover) : rollover[i][1] = p})

\* C27: with min_amount > 0, after the minimum-amount step (reconcile_after_min
\* set or not) no provider has an amount strictly between 0 and min_amount;
\* every provider whose rounded amount was positive and below min_amount is
\* zeroed, tagged "min_amount" and recorded once in the rollover list with
\* the amount removed; a provider at or above min_amount is never zeroed.
C27_NothingBelowMinAmount ==
    (ppc = "done" /\ min_amount > 0) =>
        \A p \in DOMAIN amounts :
            /\ ~(0 < amounts[p] /\ amounts[p] < min_amount)
            /\ (0 < RoundedAmounts[p] /\ RoundedAmounts[p] < min_amount)
                  => /\ amounts[p] = 0
                     /\ HasTag(policies, p, "min_amount")
                     /\ InRollover(p) = 1
                     /\ \E i \in 1..Len(rollover) : rollover[i] = <<p, RoundedAmounts[p]>>
            /\ RoundedAmounts[p] >= min_amount
                  => amounts[p] > 0 /\ InRollover(p) = 0

\* C27 without the first clause: who is zeroed, tagged and rolled over
C27_BelowMinZeroed ==
    (ppc = "done" /\ min_amount > 0) =>
        \A p \in DOMAIN amounts :
            /\ (0 < RoundedAmounts[p] /\ RoundedAmounts[p] < min_amount)
                  => /\ amounts[p] = 0
                     /\ HasTag(policies, p, "min_amount")
                     /\ InRollover(p) = 1
                     /\ \E i \in 1..Len(rollover) : rollover[i] = <<p, RoundedAmounts[p]>>
            /\ RoundedAmounts[p] >= min_amount
                  => amounts[p] > 0 /\ InRollover(p) = 0

\* C28: for every weight map, every policy configuration and every budget
\* >= 0, every payout amount is >= 0 after round_amounts and after the
\* minimum-amount step: the residual added to the largest amount never makes
\* it negative.
C28_AmountsNonNegative ==
    (ppc \in {"rounded", "done"}) => \A p \in DOMAIN amounts : amounts[p] >= 0

\* C24 witness: a run in which a cap triggered in every one of the ten rounds,
\* so that only the bound ended the loop.
C24_Witness ==
    /\ ppc = "capped"
    /\ CapsGiven
    /\ rounds = MaxCapRounds
    /\ ~Quiet(MaxCapRounds - 1)

\* a run that left the loop at the break, after some rounds that changed
\* the weights
C24_EarlyExit ==
    /\ ppc = "capped"
    /\ CapsGiven
    /\ rounds \in 1..(MaxCapRounds - 1)

----------------------------------------------------------------------------
(* Claims on the hash chain (SpecChain) *)

\* C4: a chain file with more entries than the source has blocks is rejected
\* (non-zero exit), whether or not the line count is a multiple of N.
C4_TrailingEntriesRejected ==
    (Verified /\ Len(chain) > NumBlocks(source, chunk)) => LastExit # 0

\* C4, the case of the exact boundary: the source is not empty, its line count
\* is a multiple of N, the chain file holds the right entries followed by more.
C4_TrailingAtBoundaryRejected ==
    (/\ Verified
     /\ NonBlank(source) # <<>>
     /\ Len(NonBlank(source)) % chunk = 0
     /\ Len(chain) > NumBlocks(source, chunk)
     /\ SubSeq(chain, 1, NumBlocks(source, chunk)) = RefChain(source, chunk))
        => LastExit # 0

\* C5: a chain file in which some entry's block_index differs from its 0-based
\* position is rejected, even when every recorded digest is correct.
C5_BlockIdxRejected ==
    (/\ Verified
     /\ \E i \in 1..Len(chain) : chain[i].blk # i - 1
     /\ Len(chain) = NumBlocks(source, chunk)
     /\ \A i \in 1..Len(chain) : chain[i].dg = RefDigest(source, chunk, i))
        => LastExit # 0

\* C6: when the recorded digest of a block the source produces differs from the
\* recomputed digest (flipped character, non-hex character, wrong length),
\* the verifier exits non-zero.
C6_DigestMismatchRejected ==
    (Verified /\ \E i \in 1..Min(Len(chain), NumBlocks(source, chunk)) :
                    chain[i].dg # RefDigest(source, chunk, i))
        => LastExit # 0

\* C6 witness: the last entry (of a final partial block) carries a non-hex
\* digest spelling the right bytes otherwise, and the verifier has exited 3.
C6_Witness ==
    /\ Verified
    /\ Len(chain) = NumBlocks(source, chunk)
    /\ Len(chain) >= 2
    /\ Len(NonBlank(source)) % chunk # 0
    /\ chain[Len(chain)].dg.form = "nonhex"
    /\ chain[Len(chain)].dg.val = RefDigest(source, chunk, Len(chain)).val
    /\ \A i \in 1..(Len(chain) - 1) : chain[i].dg = RefDigest(source, chunk, i)
    /\ LastExit = 3

\* C7: with zero non-blank source lines the verifier passes if and only if the
\* chain file has zero entries.
C7_EmptySourceIffEmptyChain ==
    (Verified /\ NonBlank(source) = <<>>) => (LastExit = 0 <=> chain = <<>>)

\* C8: once the writer has chained a source, any change to the source's
\* sequence of non-blank lines makes the verifier reject it against the
\* original chain (stated for a changed source that still holds lines; the
\* emptied source is the case of C7).
C8_SourceChangeRejected ==
    (/\ Verified
     /\ chain = RefChain(written, chunk)
     /\ NonBlank(source) # NonBlank(written)
     /\ NonBlank(source) # <<>>)
        => LastExit # 0

\* C9: the writer's chain, verified against the unmodified source with the
\* same N, passes, and passes again on a second verification.
C9_RoundTripPasses ==
    (Verified /\ edits = 0) => \A k \in 1..Len(exits) : exits[k] = 0

\* C9 witness: a source with a complete and a final partial block was chained
\* and then verified twice with nothing edited in between.
C9_Witness ==
    /\ Verified
    /\ edits = 0
    /\ Len(exits) = 2
    /\ Len(chain) >= 2
    /\ Len(NonBlank(source)) % chunk # 0
    /\ exits = <<0, 0>>

\* the chain file is as the writer left it
JustWritten == cpc # "start" /\ edits = 0

\* C20: for a source of L non-blank lines and --chunk N >= 1 the writer emits
\* ceil(L / N) entries; the i-th entry (0-based) has block_index i and
\* line_count_upto min((i + 1) * N, L).  The last entry is that of a partial
\* block exactly when L mod N # 0; L = N gives one entry, L = 0 gives none.
C20_WriterEntries ==
    JustWritten =>
        LET L == Len(NonBlank(source))
            N == chunk
        IN  /\ wexits = <<0>>
            /\ Len(chain) = (L + N - 1) \div N
            /\ \A i \in 0..(Len(chain) - 1) :
                  /\ chain[i + 1].blk = i
                  /\ chain[i + 1].upto = Min((i + 1) * N, L)
            /\ (Len(chain) > 0 /\ chain[Len(chain)].upto % N # 0) <=> (L % N # 0)
            /\ (L = N) => Len(chain) = 1
            /\ (L = 0) <=> (chain = <<>>)

\* C20 witness: three non-blank lines chained with N = 2: entry 0 counts up
\* to 2, entry 1 is the partial block and counts up to 3.
C20_Witness ==
    /\ JustWritten
    /\ chunk = 2
    /\ Len(NonBlank(source)) = 3
    /\ Len(chain) = 2
    /\ chain[1].blk = 0 /\ chain[1].upto = 2
    /\ chain[2].blk = 1 /\ chain[2].upto = 3

\* the source differs from the one that was chained in its empty lines
\* only, and does differ
BlankLinesChanged ==
    /\ cpc # "start"
    /\ source # written
    /\ NonBlank(source) = NonBlank(written)

\* C21: blank lines do not take part in chaining.  Whenever the source differs
\* from the chained one only by blank lines inserted or removed, the writer
\* would emit the same entries (block_index, count, digest) for it, the count
\* of the last entry is the number of non-blank lines, and the verifier's
\* verdict on it is the verdict it gives on the chained source.
C21_BlankLinesIgnored ==
    BlankLinesChanged =>
        /\ WriterMain(source, chunk) = WriterMain(written, chunk)
        /\ \A i \in 1..Len(WriterMain(source, chunk)) :
              WriterMain(source, chunk)[i].upto <= Len(NonBlank(source))
        /\ VerifierMain(source, chain, chunk).code = VerifierMain(written, chain, chunk).code
        /\ Verified => LastExit = VerifierMain(written, chain, chunk).code

\* C21 witness: a source with two blocks got a blank line between its lines
\* after it was chained, and the verifier passed it.
C21_Witness ==
    /\ BlankLinesChanged
    /\ Verified
    /\ edits = 0
    /\ Len(chain) >= 2
    /\ \E i \in 2..(Len(source) - 1) : source[i] = Blank
    /\ written = NonBlank(written)
    /\ LastExit = 0

\* C10: when the source produces more blocks than the chain file has entries,
\* the verifier exits non-zero, be the missing entry that of a complete block
\* or that of the final partial block.
C10_ShortChainRejected ==
    (Verified /\ NumBlocks(source, chunk) > Len(chain)) => LastExit # 0

\* C10 witness: every entry present is correct, only the entry of the final
\* partial block is missing, and the verifier has exited 3 on that account.
C10_Witness ==
    /\ Verified
    /\ NumBlocks(source, chunk) = Len(chain) + 1
    /\ Len(chain) >= 1
    /\ Len(NonBlank(source)) % chunk # 0
    /\ \A i \in 1..Len(chain) : chain[i] = RefChain(source, chunk)[i]
    /\ stderr = {"short_final"}
    /\ LastExit = 3

----------------------------------------------------------------------------
(* Claims on the --chunk argument (SpecChunk) *)

\* C11: with --chunk <= 0, the writer and the verifier each exit with code 2
\* and [FATAL] on stderr before any file is opened, created or written, and
\* no chain file is produced.
C11_NonPositiveChunkFatal ==
    chunk <= 0 =>
        /\ cpc = "written"
              => (wexits = <<2>> /\ "FATAL" \in stderr /\ opened = {}
                  /\ "chain" \notin files)
        /\ Verified
              => (LastExit = 2 /\ "FATAL" \in stderr /\ opened = {})

----------------------------------------------------------------------------
(* Claims on the arguments and the input of the payout run (SpecReceipts) *)

\* --period is exactly YYYY-MM with a two-digit month in 01..12
PeriodWellFormed(p) ==
    /\ Len(p) = 2
    /\ Len(p[1]) = 4 /\ IsInt(p[1])
    /\ Len(p[2]) = 2 /\ IsInt(p[2])
    /\ 1 <= IntVal(p[2]) /\ IntVal(p[2]) <= 12

\* C12: with a --period that is not exactly YYYY-MM (month 01..12, zero
\* padded) the run goes no further than the period: it has exited non-zero
\* with FATAL on stderr and none of its output files exists.
C12_BadPeriodFatal ==
    (ppc # "start" /\ ~PeriodWellFormed(period)) =>
        /\ pexits # <<>>
        /\ pexits # <<0>>
        /\ \E msg \in pstderr : msg = "[FATAL]"
        /\ outputs = Empty

\* a line that is to be skipped: not JSON, JSON that is not an object, wrong
\* schema, top_k not a non-empty list of objects, share sum out of tolerance
Malformed(rec) == rec \in MalformedLines

\* C13: whatever malformed lines the input holds, the run does not raise, and
\* the aggregate is the one of the input with those lines removed (stated for
\* the runs whose --period is well formed).
C13_MalformedLinesSkipped ==
    (ppc \in {"aggregated", "crashed", "empty", "normalized"}
        /\ PeriodWellFormed(period)) =>
        /\ ppc # "crashed"
        /\ S = Aggregated(SelectSeq(receipts, LAMBDA rec : ~Malformed(rec)), ym).S

\* C14: a run that found no receipt to accept, or a zero total weight, has
\* taken the empty branch: exit code 0, an NDJSON file without records, a CSV
\* file holding the header row only, and no amount for any provider.
C14_EmptyRunWritesEmptyOutputs ==
    (ppc \in {"empty", "normalized"} /\ (total_receipts = 0 \/ Sum(S) <= 0)) =>
        /\ ppc = "empty"
        /\ pexits = <<0>>
        /\ DOMAIN outputs = {"out_csv", "out_ndjson"}
        /\ outputs["out_ndjson"] = <<>>
        /\ outputs["out_csv"] = <<CsvHeader>>
        /\ amounts = Empty

\* C14 witness: the input held lines, none of them was accepted, and the run
\* ended with exit code 0 and the two empty files.
C14_Witness ==
    /\ ppc = "empty"
    /\ Len(receipts) = MaxReceipts
    /\ \E i \in 1..Len(receipts) : receipts[i] \in GoodLines
    /\ total_receipts = 0
    /\ pexits = <<0>>
    /\ outputs = EmptyOutputFiles

----------------------------------------------------------------------------
(* Claims on the bundle verifier (SpecBundle) *)

Ended == bpc \in {"verified", "failed", "crashed"}

LastLine == bout[Len(bout)]

VerifiedPrinted == \E i \in 1..Len(bout) : bout[i] = Ok("CRC-1 VERIFIED")

\* MANIFEST.json declares artifact entries at all
Declares == manifest.file = "object" /\ manifest.artifacts_is_dict

\* the positions of the entries whose path resolves outside the directory
OutsideEntries == {i \in 1..Len(manifest.artifacts) : manifest.artifacts[i].path \in OutsidePaths}

NoOutsideRead == \A r \in breads : r.path \notin OutsidePaths

\* C15 as stated: whenever some declared entry resolves outside the bundle
\* directory, the verifier ends on the path-traversal error.
C15_TraversalErrorAsStated ==
    (Ended /\ Declares /\ OutsideEntries # {}) =>
        /\ bpc = "failed"
        /\ LastLine = Fail("path traversal rejected")

\* every check that main() makes before it reaches entry i passes
ChecksBeforeEntryPass(i) ==
    /\ SchemaOk(manifest)
    /\ manifest.contract = CONTRACT
    /\ \A j \in 1..Len(required) : required[j] \in Keys(manifest.artifacts)
    /\ \A j \in 1..(i - 1) : PathCheck(manifest.artifacts[j], bfiles) = "ok"

\* C15 amended: with a declared entry (required or not) that resolves outside
\* the bundle directory, the verifier never reads a file outside the
\* directory, never starts the hash-chain verifier and never verifies; once
\* it has ended its exit code is non-zero; and the failure it reports is the
\* path-traversal error whenever every check made before that entry passes.
C15_TraversalRejected ==
    (Declares /\ OutsideEntries # {}) =>
        /\ NoOutsideRead
        /\ hc_runs = 0
        /\ bpc # "verified"
        /\ ~VerifiedPrinted
        /\ Ended => bexits = <<1>>
        /\ (Ended /\ \E i \in OutsideEntries : ChecksBeforeEntryPass(i))
              => (bpc = "failed" /\ LastLine = Fail("path traversal rejected"))

\* C15 witness: the manifest of cmd_run was given one more entry, a link to a
\* file outside the directory, and the verifier ended on the traversal error
\* without having read anything but the manifest.
C15_Witness ==
    /\ bpc = "failed"
    /\ orch = "cli"
    /\ manifest.artifacts[Len(manifest.artifacts)] = [key |-> "extra", path |-> "symlink"]
    /\ OutsideEntries = {Len(manifest.artifacts)}
    /\ LastLine = Fail("path traversal rejected")
    /\ breads = {[key |-> "MANIFEST", path |-> "name"]}
    /\ hc_runs = 0
    /\ bexits = <<1>>

\* the positions of main(), in the order of its checks
VerifierOrder == <<"bundle", "dir_ok", "manifest_found", "manifest_parsed", "schema_ok",
                   "contract_ok", "artifacts_ok", "keys_ok", "paths_ok", "trust_ok",
                   "verified">>

Rank(pc) == CHOOSE i \in 1..Len(VerifierOrder) : VerifierOrder[i] = pc

\* what a verified bundle must be
BundleSound ==
    /\ manifest.file = "object"
    /\ manifest.schema = MANIFEST_SCHEMA
    /\ manifest.contract = CONTRACT
    /\ manifest.artifacts_is_dict
    /\ \A j \in 1..Len(required) : required[j] \in Keys(manifest.artifacts)
    /\ \A i \in 1..Len(manifest.artifacts) :
          /\ manifest.artifacts[i].path = "name"
          /\ manifest.artifacts[i].key \in bfiles
    /\ tb_json

\* C16: "CRC-1 VERIFIED" and exit code 0 come together and only for a bundle
\* whose manifest exists and parses, has the fixed schema and contract, names
\* the four required artifacts, declares only paths inside the directory that
\* exist, and whose trust bundle is JSON, after the hash-chain verifier
\* returned 0; the checks are made in that order, one after the other, and
\* the hash-chain verifier is started only when all the others have passed.
C16_VerifiedOnlyAfterAllChecks ==
    /\ []((VerifiedPrinted \/ bexits = <<0>>) =>
            /\ bpc = "verified"
            /\ VerifiedPrinted
            /\ bexits = <<0>>
            /\ BundleSound
            /\ hc_runs = 1
            /\ exits = <<0>>)
    /\ [][(bpc' # bpc /\ bpc' \notin {"bundle", "failed", "crashed"})
             => Rank(bpc') = Rank(bpc) + 1]_vars
    /\ [][hc_runs' # hc_runs => (bpc = "trust_ok" /\ BundleSound)]_vars

\* C16 witness: a bundle of cmd_run from which the entry of an artifact that
\* CRC-1 does not require was removed, verified.
C16_Witness ==
    /\ bpc = "verified"
    /\ orch = "cli"
    /\ edits > 0
    /\ Len(manifest.artifacts) < Len(CliArtifacts)
    /\ VerifiedPrinted
    /\ bexits = <<0>>

\* C17: every run of the verifier that does not verify ends with a non-zero
\* exit code and a last line of output that starts with FAIL and names the
\* failed check; VERIFIED is not printed.
C17_EveryFailureSaysFail ==
    (Ended /\ bpc # "verified") =>
        /\ bexits # <<>>
        /\ bexits # <<0>>
        /\ ~VerifiedPrinted
        /\ bout # <<>>
        /\ LastLine.tag = "[FAIL]"

\* C18: a bundle an orchestrator completed, left as it is, has a manifest with
\* the fixed schema and contract and the four required artifacts, was chained
\* with the chunk size the verifier uses, and the verifier never fails on it:
\* when it ends it has printed CRC-1 VERIFIED and exited 0.
C18_OrchestratedBundleVerifies ==
    (orch \in {"run", "cli"} /\ edits = 0) =>
        /\ manifest.schema = MANIFEST_SCHEMA
        /\ manifest.contract = CONTRACT
        /\ \A j \in 1..Len(required) : required[j] \in Keys(manifest.artifacts)
        /\ chain = WriterMain(source, VerifierDefaultChunk)
        /\ bpc \notin {"failed", "crashed"}
        /\ Ended => (bpc = "verified" /\ VerifiedPrinted /\ bexits = <<0>>)

\* C18 witness: run.py made a bundle of a source with lines, nothing was
\* changed, and the verifier went through all its checks to CRC-1 VERIFIED.
C18_Witness ==
    /\ orch = "run"
    /\ edits = 0
    /\ Len(chain) >= 1
    /\ bpc = "verified"
    /\ hc_runs = 1
    /\ LastLine = Ok("CRC-1 VERIFIED")
    /\ bexits = <<0>>

----------------------------------------------------------------------------
(* Claims on the receipt reader (SpecReader) *)

\* the lines taken so far that are not empty once stripped, in file order
NonEmptyTaken ==
    SelectSeq(SubSeq(nd_lines, 1, nd_lineno), LAMBDA l : strip(l) # <<>>)

\* C22: the reader yields exactly one item per non-empty line, in file order,
\* a parsed record or a parse-error item carrying the raw text, and skips
\* empty lines; the k-th non-empty line is reported as line k, whatever
\* empty lines precede it.
C22_OneItemPerNonEmptyLine ==
    reader # "none" =>
        /\ Len(nd_items) = Len(NonEmptyTaken)
        /\ \A k \in 1..Len(nd_items) :
              /\ nd_items[k].rec.raw = strip(NonEmptyTaken[k])
              /\ (nd_items[k].rec.keys # {}) <=> json_loads(strip(NonEmptyTaken[k])).raised
              /\ nd_items[k].lineno = k

----------------------------------------------------------------------------
(* Claims on validate_bundle (SpecTrustBundle) *)

\* the artifact is missing, or its size or its sha256 differs from the
\* declared one
Faulty(meta) ==
    meta.path /\ (~meta.found \/ meta.bytes = "mismatch" \/ meta.sha256 = "mismatch")

Reports(i, status) == \E k \in 1..Len(tb_out) : tb_out[k] = [artifact |-> i, line |-> status]

\* C23: validate_bundle counts an artifact at most once: the number of errors
\* it reports is the number of artifacts that are missing or mismatched; for
\* an artifact whose size and sha256 both mismatch it reports SIZE_MISMATCH
\* and HASH_MISMATCH; and it returns non-zero whenever an artifact
\* mismatches.
C23_OneErrorPerArtifact ==
    (tb_exits # <<>> /\ tb_arts # <<>>) =>
        /\ tb_errors = Cardinality({i \in 1..Len(tb_arts) : Faulty(tb_arts[i])})
        /\ \A i \in 1..Len(tb_arts) :
              (tb_arts[i].path /\ tb_arts[i].found /\ tb_arts[i].bytes = "mismatch"
                 /\ tb_arts[i].sha256 = "mismatch")
              => Reports(i, "SIZE_MISMATCH") /\ Reports(i, "HASH_MISMATCH")
        /\ (\E i \in 1..Len(tb_arts) : Faulty(tb_arts[i])) => tb_exits # <<0>>

----------------------------------------------------------------------------
(* Claims on the order of the input lines (SpecOrder)                      *)

\* the input files that hold the same lines as the one read, in any order
Permuted(lines) ==
    {[i \in 1..Len(lines) |-> lines[f[i]]] : f \in Permutations(1..Len(lines))}

\* C29: the amounts paid depend on the accepted receipts, the budget and the
\* policy only: every reordering of the input lines gives every provider the
\* amount that the order read has given it.
C29_OrderIndependent ==
    ppc = "rounded" =>
        \A lines \in Permuted(receipts) :
            RunOn(lines, ym, eur_total, cap_top1).amounts = amounts

----------------------------------------------------------------------------
(* Claims on the receipt validator (SpecValidate)                          *)

\* C30: every non-empty line is counted in exactly one of the three classes:
\* at the end of the scan total = valid + error_lines + warn_lines, whether
\* or not the schema registry is available, and the grade and the exit code
\* are those of these counters.
C30_CountersAddUp ==
    vpc = "done" =>
        /\ counts.total = counts.valid + counts.error_lines + counts.warn_lines
        /\ vout[1].health
              = classify_health(counts.total, counts.error_lines, counts.warn_lines)
        /\ vout[1].code = ExitCode(vout[1].health)

\* without the registry the identity holds after every line
C30_AddUpWithoutRegistry ==
    ~registry =>
        counts.total = counts.valid + counts.error_lines + counts.warn_lines

\* with the registry, a line is counted twice exactly when it is a data
\* receipt: once as a warning and once by its business rules
DataLinesRead ==
    Cardinality({i \in 1..nd_lineno :
        /\ Len(strip(nd_lines[i])) = 1
        /\ strip(nd_lines[i])[1] \in {DataGood, DataNoProvider}})

C30_DataReceiptsCountedTwice ==
    registry =>
        counts.valid + counts.error_lines + counts.warn_lines
            = counts.total + DataLinesRead

====
